---- MODULE Spec2Model ----
(***************************************************************************)
(* A state-machine model of the jsnes console: the NES object (frame loop, *)
(* reset, loadROM, save states), the 6502 interpreter's bus operations and *)
(* a subset of its instructions, the PPU's timing and $2002/$2005/$2006    *)
(* registers, the APU frame counter, the base mapper and the mappers that  *)
(* override write().                                                       *)
(*                                                                         *)
(* Numbers are written in decimal; the hexadecimal of the source is given  *)
(* in the comments.  JavaScript null / undefined / NaN in an integer field *)
(* are the one value Null.                                                 *)
(***************************************************************************)
EXTENDS Integers, Sequences, FiniteSets, TLC

VARIABLES
  nes,          \* NES: crashed, rom, whether mmap is set, position in frame()
  cpu,          \* CPU registers, flags, interrupt request, bus bookkeeping
  mem,          \* cpu.mem: the bytes that differ from what reset/bank loads put there
  prg,          \* cpu.mem $8000-$FFFF: the 8 KiB ROM bank copied into each window
  ppu,          \* PPU timing, flags and register latches
  papu,         \* APU frame counter
  mmap,         \* mapper object: controller strobe state, zapper
  controllers,  \* nes.controllers[1..2].state[0..7]
  out           \* what the host observes: errors, callbacks, values read

vars == <<nes, cpu, mem, prg, ppu, papu, mmap, controllers, out>>

\* null / undefined / NaN in a numeric field
Null == -1

(***************************************************************************)
(* Bit arithmetic on non-negative integers.                                *)
(***************************************************************************)
\* (v >> n) & 1
Bit(v, n) == (v \div (2 ^ n)) % 2

\* (v & (255 - (1 << n))) | (b << n) for a byte v
WithBit(v, n, b) == v - Bit(v, n) * (2 ^ n) + b * (2 ^ n)

\* v & 0xe0 and v & 0x1f for a byte v
High3(v) == (v % 256) - (v % 32)
Low5(v) == v % 32

\* a | b for bytes a, b
OrBit(a, b, n) == IF Bit(a, n) = 1 \/ Bit(b, n) = 1 THEN 2 ^ n ELSE 0
Or8(a, b) ==
  OrBit(a, b, 0) + OrBit(a, b, 1) + OrBit(a, b, 2) + OrBit(a, b, 3)
  + OrBit(a, b, 4) + OrBit(a, b, 5) + OrBit(a, b, 6) + OrBit(a, b, 7)

\* a & b and a ^ b for bytes a, b
AndByte(a, b) ==
  Bit(a, 0) * Bit(b, 0) + Bit(a, 1) * Bit(b, 1) * 2 + Bit(a, 2) * Bit(b, 2) * 4
  + Bit(a, 3) * Bit(b, 3) * 8 + Bit(a, 4) * Bit(b, 4) * 16
  + Bit(a, 5) * Bit(b, 5) * 32 + Bit(a, 6) * Bit(b, 6) * 64
  + Bit(a, 7) * Bit(b, 7) * 128
XorByte(a, b) == Or8(a, b) - AndByte(a, b)

\* JavaScript's x & 1 where x may be undefined
And1(x) == IF x = Null THEN 0 ELSE x % 2

(***************************************************************************)
(* Cartridges.  A ROM is its header fields and the name of its PRG image.  *)
(***************************************************************************)
\* PRG bank size and the 8 KiB window size of the bank-load helpers
BankSize == 16384
HalfBank == 8192
RomBase == 32768        \* 0x8000
VecOffset == 16378      \* 0x3ffa: the NMI vector's offset in the last 16 KiB bank

\* Byte sequence `code` placed at offset `at` of a bank; -1 where it does not reach.
Placed(code, at, off) ==
  IF off >= at /\ off < at + Len(code) THEN code[off - at + 1] ELSE Null

\* Interrupt vectors NMI, RESET, IRQ (low byte first) of the test programs:
\* NMI -> $8040, RESET -> $8000, IRQ -> $8050.
Vectors == <<64, 128, 0, 128, 80, 128>>

\* $8000  AD 02 20  LDA $2002
\* $8003  8D 05 20  STA $2005
\* $8006  10 F8     BPL $8000     ; until VBlank is seen
\* $8008  8D 06 20  STA $2006
\* $800B  4C 00 80  JMP $8000
ProgPoll == <<173, 2, 32, 141, 5, 32, 16, 248, 141, 6, 32, 76, 0, 128>>

\* $8000  A9 80     LDA #$80
\* $8002  8D 00 20  STA $2000     ; enable NMI on VBlank
\* $8005  A9 60     LDA #$60
\* $8007  8D 14 40  STA $4014     ; OAM DMA from page $60, halts the CPU
\* $800A  AD 02 20  LDA $2002
\* $800D  4C 05 80  JMP $8005
ProgNmi == <<169, 128, 141, 0, 32, 169, 96, 141, 20, 64, 173, 2, 32, 76, 5, 128>>

\* NMI handler at $8040:  AD 02 20  LDA $2002 ;  40  RTI
NmiHandler == <<173, 2, 32, 64>>

\* $8000  AD 02 20  LDA $2002
\* $8003  10 FB     BPL $8000
\* $8005  02        (invalid opcode, reached once VBlank has been seen)
ProgLate == <<173, 2, 32, 16, 251, 2>>

\* $8000  58        CLI
\* $8001  AD 10 08  LDA $0810     ; RAM $0010 through its second mirror
\* $8004  78        SEI
\* $8005  00        BRK
ProgCpu == <<88, 173, 16, 8, 120, 0>>

\* NMI handler at $8040:  6C FA BF  JMP ($BFFA)  ; the NMI vector: $8040
CpuNmiHandler == <<108, 250, 191>>

\* IRQ/BRK handler at $8050:  EA  NOP ;  6C 10 08  JMP ($0810)
CpuIrqHandler == <<234, 108, 16, 8>>

\* $8000  A9 80     LDA #$80
\* $8002  4C 05 80  JMP $8005
\* $8005  8D 00 20  STA $2000     ; NMI on VBlank enabled ...
\* $8008  A9 00     LDA #$00
\* $800A  8D 00 20  STA $2000     ; ... and disabled again
\* $800D  A9 80     LDA #$80
\* $800F  4C 05 80  JMP $8005
\* The loop takes 15 cycles; the enabling STA of its 1986th round starts at
\* cycle 29,780, two dots before the end of scanline 261 of the first frame.
ProgArmClear ==
  <<169, 128, 76, 5, 128, 141, 0, 32, 169, 0, 141, 0, 32, 169, 128, 76, 5, 128>>

\* The same loop at $8008 behind LDA #$80 and six NOPs: here it is the
\* disabling STA that starts at cycle 29,780.
ProgArmSet ==
  <<169, 128, 234, 234, 234, 234, 234, 234,
    141, 0, 32, 169, 0, 141, 0, 32, 169, 128, 76, 8, 128>>

\* ProgArmSet with one more NOP and LDA #$80 in place of LDA #$00: the NMI
\* stays enabled, and a frame ends inside the STA $2000 at $800E
ProgArmKeep ==
  <<169, 128, 234, 234, 234, 234, 234, 234, 234,
    141, 0, 32, 169, 128, 141, 0, 32, 169, 128, 76, 9, 128>>

\* $8000  6C FF 02  JMP ($02FF)   ; pointer in RAM
\* $8010  6C FF 0A  JMP ($0AFF)   ; pointer in RAM, through its first mirror
\* $8020  6C FF 1F  JMP ($1FFF)   ; pointer in RAM, through its last mirror
\* $8030  6C FF 80  JMP ($80FF)   ; pointer in ROM; $80FF holds $40
ProgWrap(off) ==
  CASE off \in {0, 16, 32, 48} -> 108
    [] off \in {1, 17, 33, 49} -> 255
    [] off = 2 -> 2
    [] off = 18 -> 10
    [] off = 34 -> 31
    [] off = 50 -> 128
    [] off = 255 -> 64
    [] OTHER -> Null

\* $8000  A6 10     LDX $10
\* $8002  A4 11     LDY $11
\* $8004  BD 17 40  LDA $4017,X   ; X = $FF: dummy read of $4016
\* $8007  B9 80 03  LDA $0380,Y
\* $800A  B1 20     LDA ($20),Y
\* $800C  9D 80 03  STA $0380,X
\* $800F  99 80 03  STA $0380,Y
\* $8012  91 20     STA ($20),Y
\* $8014  96 40     STX $40,Y
\* $8016  94 40     STY $40,X
\* $8018  60        RTS
ProgIndex ==
  <<166, 16, 164, 17, 189, 23, 64, 185, 128, 3, 177, 32, 157, 128, 3, 153, 128, 3,
    145, 32, 150, 64, 148, 64, 96>>

\* $8100  AD 02 20  LDA $2002
\* $8103  8D 05 20  STA $2005
\* $8106  AD 15 40  LDA $4015
\* $8109  6C 02 20  JMP ($2002)   ; pointer in the PPU registers
\* reached from ProgIndex by an RTS that pulls $80FF
ProgPpuPointer == <<173, 2, 32, 141, 5, 32, 173, 21, 64, 108, 2, 32>>

\* $8000  A6 10     LDX $10
\* $8002  0E 00 60  ASL $6000     ; the twelve read-modify-write instructions
\* $8005  4E 00 60  LSR $6000     ; on a byte of cartridge RAM
\* $8008  2E 00 60  ROL $6000
\* $800B  6E 00 60  ROR $6000
\* $800E  EE 00 60  INC $6000
\* $8011  CE 00 60  DEC $6000
\* $8014  0F 00 60  SLO $6000
\* $8017  4F 00 60  SRE $6000
\* $801A  2F 00 60  RLA $6000
\* $801D  6F 00 60  RRA $6000
\* $8020  CF 00 60  DCP $6000
\* $8023  EF 00 60  ISC $6000
\* $8026  FE FF 02  INC $02FF,X   ; X = 0: same page; X = 1, $FF: page crossed
\* $8029  EE 16 40  INC $4016     ; a register: strobe written twice
\* $802C  CD 16 40  CMP $4016     ; controller 1 read by CMP, AND, ADC, SBC
\* $802F  2D 16 40  AND $4016
\* $8032  6D 16 40  ADC $4016
\* $8035  ED 16 40  SBC $4016
\* $8038  ED 00 60  SBC $6000
\* $803B  4C 3B 80  JMP $803B
ProgRender == <<169, 8, 141, 1, 32, 76, 5, 128>>

\* $8000  A9 60     LDA #$60
\* $8002  8D 00 00  STA $0000     ; an RTS at $0000
\* $8005  60        RTS           ; the stack holds $FF, $FF after reset
ProgSpin == <<169, 96, 141, 0, 0, 96>>

ProgRmw ==
  <<166, 16, 14, 0, 96, 78, 0, 96, 46, 0, 96, 110, 0, 96, 238, 0, 96, 206, 0, 96,
    15, 0, 96, 79, 0, 96, 47, 0, 96, 111, 0, 96, 207, 0, 96, 239, 0, 96,
    254, 255, 2, 238, 22, 64, 205, 22, 64, 45, 22, 64, 109, 22, 64, 237, 22, 64,
    237, 0, 96, 76, 59, 128>>

Images ==
  {"poll", "nmi", "late", "invalid", "banks", "cpu", "armclear", "armset", "wrap",
   "index", "armkeep", "rmw", "render", "spin"}

\* Byte at offset `off` of 16 KiB bank `bank` of the PRG image.
\* "invalid" is test/nes.spec.js's ROM: 16 KiB of $02, reset vector $C000.
\* "banks" marks every bank with its own number.
RomByte(image, bank, off) ==
  IF image = "banks" THEN (16 * (bank + 1) + (off % 16)) % 256
  ELSE IF image = "invalid"
    THEN (IF off = 16380 THEN 0 ELSE IF off = 16381 THEN 192 ELSE 2)
  ELSE LET code == CASE image = "poll" -> ProgPoll
                     [] image = "nmi" -> ProgNmi
                     [] image = "cpu" -> ProgCpu
                     [] image = "armclear" -> ProgArmClear
                     [] image = "armset" -> ProgArmSet
                     [] image = "armkeep" -> ProgArmKeep
                     [] image = "wrap" -> <<>>
                     [] image = "index" -> ProgIndex
                     [] image = "rmw" -> ProgRmw
                     [] image = "render" -> ProgRender
                     [] image = "spin" -> ProgSpin
                     [] OTHER -> ProgLate
           a == Placed(code, 0, off)
           b == CASE image \in {"nmi", "armclear", "armset", "armkeep"} ->
                       Placed(NmiHandler, 64, off)
                  [] image = "cpu" -> Placed(CpuNmiHandler, 64, off)
                  [] OTHER -> Null
           c == Placed(Vectors, VecOffset, off)
           d == CASE image = "cpu" -> Placed(CpuIrqHandler, 80, off)
                  [] image = "wrap" -> ProgWrap(off)
                  [] image = "index" -> Placed(ProgPpuPointer, 256, off)
                  [] OTHER -> Null
       IN IF a # Null THEN a ELSE IF b # Null THEN b ELSE IF c # Null THEN c
          ELSE IF d # Null THEN d ELSE 234

\* rom.valid, rom.mapperType, rom.romCount and the image; the cartridges
\* have CHR RAM (rom.vromCount = 0) and are wired for horizontal mirroring
MakeRom(type, count, image) ==
  [valid |-> TRUE, mapperType |-> type, romCount |-> count, vromCount |-> 0,
   image |-> image]

\* nes.rom before any loadROM
NoRom ==
  [valid |-> FALSE, mapperType |-> Null, romCount |-> 0, vromCount |-> 0,
   image |-> "none"]

(***************************************************************************)
(* CPU memory.  cpu.mem is an array of 0x10000 entries; the model keeps    *)
(* the bytes written since the array was created (mem) and, per 8 KiB      *)
(* window of $8000-$FFFF, which ROM bank copyArrayElements put there (prg).*)
(***************************************************************************)
EmptyMem == [a \in {} |-> 0]

\* A window holds 8 KiB bank `bank` of PRG image `image`, or nothing yet
NoBank == [image |-> "none", bank |-> 0]
NoPrg == [w \in 0..3 |-> NoBank]

\* What CPU.reset() leaves in cpu.mem[a]
ResetByte(a) ==
  IF a < 8192
    THEN CASE a % 2048 = 8 -> 247
           [] a % 2048 = 9 -> 239
           [] a % 2048 = 10 -> 223
           [] a % 2048 = 15 -> 191
           [] OTHER -> 255
  ELSE IF a = 8192 THEN Null
  ELSE 0

\* cpu.mem[a] as last left by reset or a bank load
BaseByte(p, a) ==
  IF a >= RomBase /\ a < 65536 /\ p[(a - RomBase) \div HalfBank] # NoBank
    THEN LET b == p[(a - RomBase) \div HalfBank]
         IN RomByte(b.image, b.bank \div 2, (b.bank % 2) * HalfBank + (a % HalfBank))
    ELSE ResetByte(a)

\* cpu.mem[a]
MemAt(m, p, a) == IF a \in DOMAIN m THEN m[a] ELSE BaseByte(p, a)

\* cpu.mem[a] = v
MemPut(m, p, a, v) ==
  IF v = BaseByte(p, a)
    THEN [x \in DOMAIN m \ {a} |-> m[x]]
    ELSE [x \in DOMAIN m \cup {a} |-> IF x = a THEN v ELSE m[x]]

(***************************************************************************)
(* Component states after construction / reset.  The operators below take *)
(* the whole console as one record s with the fields of `vars`.           *)
(***************************************************************************)
\* CPU.reset: registers, flags, interrupt request and bus bookkeeping
\* (apuCatchupCycles is never set by the CPU; NES.frame sets it to 0)
CPU_new ==
  [REG_ACC |-> 0, REG_X |-> 0, REG_Y |-> 0, REG_SP |-> 511,
   REG_PC |-> 32767, REG_PC_NEW |-> 32767, REG_STATUS |-> 40,
   F_CARRY |-> 0, F_DECIMAL |-> 0, F_INTERRUPT |-> 1, F_INTERRUPT_NEW |-> 1,
   F_OVERFLOW |-> 0, F_SIGN |-> 0, F_ZERO |-> 1,
   F_NOTUSED |-> 1, F_NOTUSED_NEW |-> 1, F_BRK |-> 1, F_BRK_NEW |-> 1,
   cyclesToHalt |-> 0, crash |-> FALSE,
   irqRequested |-> FALSE, irqType |-> Null,
   dataBus |-> 0, instrBusCycles |-> 0, ppuCatchupDots |-> 0,
   ppuFrameEnded |-> FALSE, apuCatchupCycles |-> Null]

\* CPU.reset keeps cpu.apuCatchupCycles, which it never mentions
CPU_reset(s) ==
  [s EXCEPT !.cpu = [CPU_new EXCEPT !.apuCatchupCycles = s.cpu.apuCatchupCycles],
            !.mem = EmptyMem,
            !.prg = NoPrg]

\* PPU constructor (the timing, flag and latch fields).  pixrendered is the
\* value startFrame fills the array with: the background stays transparent
\* in every run (pattern table 0 and the name tables are never written), so
\* renderBgScanline marks no pixel, and no register is written while sprites
\* are displayed, so no sprite is drawn between startFrame and a hit test.
PPU_new ==
  [vramAddress |-> Null, vramTmpAddress |-> Null,
   vramMem |-> EmptyMem, vramBufferedReadValue |-> 0,
   firstWrite |-> TRUE, openBusLatch |-> 0, openBusDecayFrames |-> 0,
   sramAddress |-> 0, spriteMem |-> EmptyMem, requestEndFrame |-> FALSE, dummyCycleToggle |-> FALSE,
   nmiCounter |-> 0,
   f_nmiOnVblank |-> 0, f_spriteSize |-> 0, f_bgPatternTable |-> 0,
   f_spPatternTable |-> 0, f_addrInc |-> 0, f_nTblAddress |-> 0,
   f_color |-> 0, f_spVisibility |-> 0, f_bgVisibility |-> 0,
   f_spClipping |-> 0, f_bgClipping |-> 0, f_dispType |-> 0,
   cntFV |-> 0, cntV |-> 0, cntH |-> 0, cntVT |-> 0, cntHT |-> 0,
   regFV |-> 0, regV |-> 0, regH |-> 0, regVT |-> 0, regHT |-> 0,
   regFH |-> 0, regS |-> 0,
   scanline |-> 0, lastRenderedScanline |-> -1, curX |-> 0,
   spr0HitX |-> 0, spr0HitY |-> 0, hitSpr0 |-> FALSE, pixrendered |-> 0]

\* PPU.reset returns the PPU to its power-on state
PPU_reset(s) == [s EXCEPT !.ppu = PPU_new]

\* PAPU.reset: the frame counter fields
PAPU_new ==
  [frameCycleCounter |-> 0, frameStep |-> 0, countSequence |-> 0,
   frameIrqEnabled |-> FALSE, frameIrqActive |-> FALSE]

PAPU_reset(s) == [s EXCEPT !.papu = PAPU_new]

\* A mapper object of class Mapper<type> as its constructor leaves it: no
\* field is set (an unset zapperFired is falsy, like false).  irqCounter,
\* irqLatchValue and irqEnable are Mapper4's; regBuffer to romSelectionReg1
\* are Mapper1's.
Mapper_new(type) ==
  [type |-> type,
   joy1StrobeState |-> Null, joy2StrobeState |-> Null, joypadLastWrite |-> Null,
   zapperFired |-> FALSE, zapperX |-> Null, zapperY |-> Null,
   irqCounter |-> Null, irqLatchValue |-> Null, irqEnable |-> Null,
   regBuffer |-> Null, regBufferCounter |-> Null, mirroring |-> Null,
   prgSwitchingArea |-> Null, prgSwitchingSize |-> Null,
   vromSwitchingSize |-> Null, romSelectionReg0 |-> Null,
   romSelectionReg1 |-> Null]

\* Mapper0.reset
Mapper0_reset(s) ==
  [s EXCEPT !.mmap.joy1StrobeState = 0, !.mmap.joy2StrobeState = 0,
            !.mmap.joypadLastWrite = 0,
            !.mmap.zapperFired = FALSE, !.mmap.zapperX = Null, !.mmap.zapperY = Null]

\* Mapper4.reset, after super.reset(): the scanline counter's registers
Mapper4_reset(s) ==
  [s EXCEPT !.mmap.irqCounter = 0, !.mmap.irqLatchValue = 0, !.mmap.irqEnable = 0]

\* Mapper1.reset, after super.reset(): the 5-bit buffer and the registers
\* (romBankSelect is written nowhere else and read nowhere)
Mapper1_reset(s) ==
  [s EXCEPT !.mmap.regBuffer = 0, !.mmap.regBufferCounter = 0,
            !.mmap.mirroring = 0, !.mmap.prgSwitchingArea = 1,
            !.mmap.prgSwitchingSize = 1, !.mmap.vromSwitchingSize = 0,
            !.mmap.romSelectionReg0 = 0, !.mmap.romSelectionReg1 = 0]

\* reset() of the mapper object in nes.mmap
Mapper_reset(s) ==
  IF s.mmap.type = 4 THEN Mapper4_reset(Mapper0_reset(s))
  ELSE IF s.mmap.type = 1 THEN Mapper1_reset(Mapper0_reset(s))
  ELSE Mapper0_reset(s)

\* Controller: state[0..7] = A, B, SELECT, START, UP, DOWN, LEFT, RIGHT;
\* 0x40 released, 0x41 pressed
ButtonReleased == 64
ButtonPressed == 65
Controller_new == [b \in 0..7 |-> ButtonReleased]

\* What the host has observed of the last API call or bus operation
\* (op, addr, val: the call; err: the error it threw; onFrame, battery: the
\* callbacks it made; ran, path: whether and how frame() ran the CPU;
\* frames: frame() calls so far; reads, latch: $4016 reads since the last
\* strobe and the buttons held at that strobe; inhibit: bit 6 of the last
\* $4017 write; wraps: frame sequences completed since that write;
\* saved, saves: the last toJSON() result and the toJSON() calls so far;
\* writes: bus accesses the host made so far; pal: the address and value of
\* the last $2007 write if it went to a backdrop palette entry;
\* steps: emulate() calls so far; requested: the interrupt kinds requested
\* since the last instruction boundary; irq: the kind pending when the last
\* emulate() began; opcode: the opcode it executed; ram: the internal RAM
\* bytes the host wrote, by offset in the 2 KiB; dots, cycles: the PPU dots
\* advanced and the CPU cycles (instructions and DMA stall) spent by the
\* frame() call so far; armed: $2000 bit 7 when the NMI countdown was last
\* armed; bus: the CPU.load and CPU.write calls of the current emulate() or
\* host operation, as <<"load" or "write", address, value>>; fired: the
\* frame counter steps the last clocking fired; irqClocks: the
\* clockIrqCounter() calls the PPU made during the current call; commit:
\* the register and value of the Mapper1.setReg call of the current call;
\* bits: bit 0 of the writes with bit 7 clear to $8000-$FFFF since the last
\* reset of the Mapper 1 shift register or group of five such writes,
\* <<Null>> while there has been no reset; iter, mark: the iterations of the
\* frame() in progress and the console as a marked one left it)
Out_new ==
  [op |-> "new", addr |-> Null, val |-> Null, err |-> "",
   onFrame |-> 0, battery |-> <<>>, ran |-> FALSE, path |-> {}, frames |-> 0,
   reads |-> Null, latch |-> Controller_new,
   inhibit |-> Null, wraps |-> 0,
   saved |-> <<>>, saves |-> 0, writes |-> 0, pal |-> <<>>,
   steps |-> 0, requested |-> {}, irq |-> Null, opcode |-> Null, ram |-> EmptyMem,
   dots |-> 0, cycles |-> 0, armed |-> Null, code |-> Null, bus |-> <<>>,
   fired |-> <<>>, irqClocks |-> 0, commit |-> <<>>, bits |-> <<Null>>, iter |-> 0,
   mark |-> [at |-> 0, console |-> <<>>]]

\* new GameGenie(): no patches, enabled
GameGenie_new == [patches |-> <<>>, enabled |-> TRUE]

\* new NES(opts): `crashed` is not set by the constructor
NES_new ==
  [nes |-> [crashed |-> "undefined", rom |-> NoRom, hasMmap |-> FALSE, pc |-> "idle",
            gameGenie |-> GameGenie_new],
   cpu |-> CPU_new, mem |-> EmptyMem, prg |-> NoPrg,
   ppu |-> PPU_new, papu |-> PAPU_new, mmap |-> Mapper_new(Null),
   controllers |-> [c \in 1..2 |-> Controller_new],
   out |-> Out_new]

(***************************************************************************)
(* CPU interrupt request, PPU status register and timing.                  *)
(***************************************************************************)
IRQ_NORMAL == 0
IRQ_NMI == 1
IRQ_RESET == 2

\* A request that takes the program counter to the NMI vector at once
requestIrq_atOnce(s, type) ==
  [s EXCEPT !.cpu.irqRequested = TRUE, !.cpu.irqType = type, !.cpu.REG_PC = 65529]

\* CPU.requestIrq
requestIrq(s, type) ==
  IF s.cpu.irqRequested /\ type = IRQ_NORMAL THEN s
  ELSE [s EXCEPT !.cpu.irqRequested = TRUE, !.cpu.irqType = type]

\* CPU.haltCycles
haltCycles(s, cycles) == [s EXCEPT !.cpu.cyclesToHalt = @ + cycles]

STATUS_SPRITE0HIT == 6
STATUS_VBLANK == 7
StatusAddr == 8194      \* 0x2002

\* PPU.setStatusFlag: the status byte lives in cpu.mem[0x2002]
setStatusFlag(s, flag, value) ==
  [s EXCEPT !.mem = MemPut(s.mem, s.prg, StatusAddr,
                           WithBit(MemAt(s.mem, s.prg, StatusAddr), flag,
                                   IF value THEN 1 ELSE 0))]

\* The value PPU.readStatusRegister returns
statusValue(s) ==
  High3(MemAt(s.mem, s.prg, StatusAddr)) + Low5(s.ppu.openBusLatch)

\* readStatusRegister's update of the open-bus latch, and its return
latchStatus(s, res) ==
  [s |-> [s EXCEPT !.ppu.openBusLatch = res, !.ppu.openBusDecayFrames = 36],
   val |-> res]

\* Mutation of readStatusRegister used to test the claim about the toggle
readStatusRegister_keepToggle(s) ==
  latchStatus(setStatusFlag(s, STATUS_VBLANK, FALSE), statusValue(s))

\* PPU.readStatusRegister
readStatusRegister(s) ==
  latchStatus(setStatusFlag([s EXCEPT !.ppu.firstWrite = TRUE], STATUS_VBLANK, FALSE),
              statusValue(s))

\* PPU.triggerRendering: the pixels are not modelled, the progress marker is
triggerRendering(s) ==
  IF s.ppu.scanline >= 21 /\ s.ppu.scanline <= 260
    THEN [s EXCEPT !.ppu.lastRenderedScanline = s.ppu.scanline - 21]
    ELSE s

\* PPU.regsToAddress and PPU.cntsToAddress
regsToAddress(s) ==
  LET p == s.ppu
      b1 == (p.regFV % 8) * 16 + (p.regV % 2) * 8 + (p.regH % 2) * 4
            + ((p.regVT \div 8) % 4)
      b2 == (p.regVT % 8) * 32 + (p.regHT % 32)
  IN [s EXCEPT !.ppu.vramTmpAddress = (b1 * 256 + b2) % 32768]

cntsToAddress(s) ==
  LET p == s.ppu
      b1 == (p.cntFV % 8) * 16 + (p.cntV % 2) * 8 + (p.cntH % 2) * 4
            + ((p.cntVT \div 8) % 4)
      b2 == (p.cntVT % 8) * 32 + (p.cntHT % 32)
  IN [s EXCEPT !.ppu.vramAddress = (b1 * 256 + b2) % 32768]

\* Mutation of endFrame used to test the claim about onFrame
endFrame_silent(s) == s

\* PPU.endFrame: the frame buffer goes to the host's onFrame
endFrame(s) == [s EXCEPT !.out.onFrame = @ + 1]

\* startVBlank requesting the NMI whatever $2000 bit 7 is
vblankNmi_always(s) == requestIrq(s, IRQ_NMI)

\* startVBlank's NMI request
vblankNmi(s) == IF s.ppu.f_nmiOnVblank # 0 THEN requestIrq(s, IRQ_NMI) ELSE s

\* startVBlank's open-bus decay
decayOpenBus(s) ==
  IF s.ppu.openBusDecayFrames > 0
    THEN [s EXCEPT !.ppu.openBusDecayFrames = @ - 1,
                   !.ppu.openBusLatch = IF s.ppu.openBusDecayFrames = 1 THEN 0 ELSE @]
    ELSE s

\* PPU.startVBlank
startVBlank(s) ==
  [endFrame(decayOpenBus(vblankNmi(s))) EXCEPT !.ppu.lastRenderedScanline = -1]

\* Neither background nor sprites are displayed
RenderingOff(s) == s.ppu.f_bgVisibility = 0 /\ s.ppu.f_spVisibility = 0

\* spriteMem[i] and vramMem[a] (Uint8Arrays, zero-initialised)
OamAt(om, i) == IF i \in DOMAIN om THEN om[i] ELSE 0
VramAt(vm, a) == IF a \in DOMAIN vm THEN vm[a] ELSE 0

\* Tile.setScanline: ptTile[t].pix[row * 8 + col] from the two bit planes of
\* the tile in the pattern table
tilePix(vm, t, row, col) ==
  Bit(VramAt(vm, t * 16 + row), 7 - col)
  + 2 * Bit(VramAt(vm, t * 16 + row + 8), 7 - col)

\* checkSprite0: the tile and the row of it that sprite 0 shows d lines
\* below its top, for 8x8 and 8x16 sprites
spriteZeroRow(p, d) ==
  LET tile == OamAt(p.spriteMem, 1)
      vflip == Bit(OamAt(p.spriteMem, 2), 7)
      off == IF vflip = 1 THEN 15 - d ELSE d
      odd == IF tile % 2 # 0 THEN 255 ELSE 0
  IN IF p.f_spriteSize = 0
       THEN [t |-> tile + (IF p.f_spPatternTable = 0 THEN 0 ELSE 256),
             row |-> IF vflip = 1 THEN 7 - d ELSE d]
       ELSE IF off < 8
         THEN [t |-> tile + vflip + odd, row |-> off]
         ELSE [t |-> tile + (1 - vflip) + odd,
               row |-> IF vflip = 1 THEN 15 - off ELSE off - 8]

\* checkSprite0: the pixels k of the row r of sprite 0, at x0 on scanline
\* scan, that are not transparent and lie on a marked pixel
spriteZeroPixels(p, scan, x0, r) ==
  {k \in 0..7 :
     /\ x0 + k < 256
     /\ scan * 256 + x0 + k >= 0 /\ scan * 256 + x0 + k < 61440
     /\ p.pixrendered # 0
     /\ tilePix(p.vramMem, r.t, r.row,
                IF Bit(OamAt(p.spriteMem, 2), 6) = 1 THEN 7 - k ELSE k) # 0}

\* the x of the first of the pixels ks, -1 if there is none
firstHit(x0, ks) ==
  IF ks = {} THEN -1
  ELSE (x0 + (CHOOSE k \in ks : \A j \in ks : k <= j)) % 256

\* checkSprite0: the x of the hit on scanline scan, -1 if there is none
spriteZeroHit(p, scan) ==
  LET y == OamAt(p.spriteMem, 0) + 1
      x0 == OamAt(p.spriteMem, 3)
  IN IF y <= scan /\ y + (IF p.f_spriteSize = 0 THEN 8 ELSE 16) > scan
        /\ x0 >= -7 /\ x0 < 256
       THEN firstHit(x0, spriteZeroPixels(p, scan, x0, spriteZeroRow(p, scan - y)))
       ELSE -1

\* checkSprite0's assignments, x the hit it finds
markHit(s, scan, x) ==
  [s EXCEPT !.ppu.spr0HitX = x, !.ppu.spr0HitY = IF x = -1 THEN -1 ELSE scan]

\* PPU.checkSprite0(scan)
checkSprite0At(s, scan) == markHit(s, scan, spriteZeroHit(s.ppu, scan))

\* renderBgScanline: the vertical scroll counters after the scanline
scrollDown(s) ==
  IF s.ppu.cntFV + 1 # 8 THEN [s EXCEPT !.ppu.cntFV = @ + 1]
  ELSE IF s.ppu.cntVT + 1 = 30
    THEN [s EXCEPT !.ppu.cntFV = 0, !.ppu.cntVT = 0, !.ppu.cntV = (@ + 1) % 2]
  ELSE IF s.ppu.cntVT + 1 = 32
    THEN [s EXCEPT !.ppu.cntFV = 0, !.ppu.cntVT = 0]
  ELSE [s EXCEPT !.ppu.cntFV = 0, !.ppu.cntVT = @ + 1]

\* PPU.renderBgScanline(scan), as far as the counters go: the 32 tiles of a
\* line that is drawn take cntHT once around and toggle cntH once
renderBgScanline(s, scan) ==
  scrollDown([s EXCEPT !.ppu.cntHT = s.ppu.regHT,
                       !.ppu.cntH = IF scan < 240 /\ scan - s.ppu.cntFV >= 0
                                      THEN (s.ppu.regH + 1) % 2 ELSE s.ppu.regH])

\* endScanline, case 20, after the flags are cleared
firstLine(s) ==
  LET a == IF RenderingOff(s) THEN s
           ELSE [s EXCEPT !.ppu.cntFV = s.ppu.regFV, !.ppu.cntV = s.ppu.regV,
                          !.ppu.cntH = s.ppu.regH, !.ppu.cntVT = s.ppu.regVT,
                          !.ppu.cntHT = s.ppu.regHT]
      b == IF s.ppu.f_bgVisibility = 1 THEN renderBgScanline(a, 0) ELSE a
  IN IF s.ppu.f_bgVisibility = 1 /\ s.ppu.f_spVisibility = 1
       THEN checkSprite0At(b, 0) ELSE b

\* endScanline, scanlines 21-260: the hit test for the next scanline
nextLineHit(s) ==
  IF ~s.ppu.hitSpr0 /\ s.ppu.f_spVisibility = 1
     /\ OamAt(s.ppu.spriteMem, 3) >= -7 /\ OamAt(s.ppu.spriteMem, 3) < 256
     /\ OamAt(s.ppu.spriteMem, 0) + 1 <= s.ppu.scanline - 20
     /\ OamAt(s.ppu.spriteMem, 0) + 1 + (IF s.ppu.f_spriteSize = 0 THEN 8 ELSE 16)
          >= s.ppu.scanline - 20
    THEN LET r == checkSprite0At(s, s.ppu.scanline - 20)
         IN IF r.ppu.spr0HitX # -1 THEN [r EXCEPT !.ppu.hitSpr0 = TRUE] ELSE r
    ELSE s

\* endScanline, scanlines 21-260 (scanlineAlreadyRendered is never true)
visibleLine(s) ==
  IF s.ppu.f_bgVisibility = 1
    THEN nextLineHit(renderBgScanline(s, s.ppu.scanline + 1 - 21))
    ELSE s

\* Mutation of Mapper4.clockIrqCounter used to test the claim about it
clockIrqCounter_noReload(s) ==
  IF s.mmap.type = 4 /\ s.mmap.irqEnable = 1 /\ s.mmap.irqCounter # Null
    THEN [s EXCEPT !.mmap.irqCounter = @ - 1]
    ELSE s

\* clockIrqCounter() of the mapper object: Mapper4's counts scanlines while
\* its interrupt is enabled (a counter never written is undefined and stays
\* not-a-number); the other classes' does nothing
clockIrqCounter(s) ==
  IF s.mmap.type = 4 /\ s.mmap.irqEnable = 1 /\ s.mmap.irqCounter # Null
    THEN IF s.mmap.irqCounter - 1 < 0
           THEN [requestIrq(s, IRQ_NORMAL)
                   EXCEPT !.mmap.irqCounter = s.mmap.irqLatchValue]
           ELSE [s EXCEPT !.mmap.irqCounter = @ - 1]
    ELSE s

\* endScanline, cases 20 and 21-260: the mapper's counter is clocked if the
\* background or the sprites are displayed
lineClock(s) ==
  IF RenderingOff(s) THEN s
  ELSE clockIrqCounter([s EXCEPT !.out.irqClocks = @ + 1])

\* The switch of PPU.endScanline
scanlineCase(s) ==
  CASE s.ppu.scanline = 19 ->
         IF s.ppu.dummyCycleToggle
           THEN [s EXCEPT !.ppu.curX = 1, !.ppu.dummyCycleToggle = FALSE]
           ELSE s
    [] s.ppu.scanline = 20 ->
         lineClock(
           firstLine([setStatusFlag(setStatusFlag(s, STATUS_VBLANK, FALSE),
                                    STATUS_SPRITE0HIT, FALSE)
                        EXCEPT !.ppu.hitSpr0 = FALSE, !.ppu.spr0HitX = -1,
                               !.ppu.spr0HitY = -1]))
    [] s.ppu.scanline = 261 ->
         [setStatusFlag(s, STATUS_VBLANK, TRUE)
            EXCEPT !.ppu.requestEndFrame = TRUE,
                   !.ppu.nmiCounter = 9,
                   !.ppu.scanline = -1,
                   !.out.armed = s.ppu.f_nmiOnVblank]
    [] s.ppu.scanline >= 21 /\ s.ppu.scanline <= 260 -> lineClock(visibleLine(s))
    [] OTHER -> s

\* PPU.endScanline
endScanline(s) ==
  cntsToAddress(regsToAddress([scanlineCase(s) EXCEPT !.ppu.scanline = @ + 1]))

DotsPerLine == 341

\* the sprite 0 hit test of the dot loop
spriteZeroDot(s) ==
  IF s.ppu.curX = s.ppu.spr0HitX /\ s.ppu.f_spVisibility = 1
     /\ s.ppu.scanline - 21 = s.ppu.spr0HitY
    THEN setStatusFlag(s, STATUS_SPRITE0HIT, TRUE)
    ELSE s

\* the NMI countdown of the dot loop
nmiCountdown(s) ==
  IF s.ppu.requestEndFrame THEN [s EXCEPT !.ppu.nmiCounter = @ - 1] ELSE s

\* curX++ and the end of the scanline
nextDot(s) ==
  IF s.ppu.curX + 1 = DotsPerLine
    THEN endScanline([s EXCEPT !.ppu.curX = 0])
    ELSE [s EXCEPT !.ppu.curX = @ + 1]

\* the dot after the countdown: startVBlank (and break), or the next dot
dotEnd(s) ==
  IF s.ppu.requestEndFrame /\ s.ppu.nmiCounter = 0
    THEN [s |-> startVBlank([s EXCEPT !.ppu.requestEndFrame = FALSE]), ended |-> TRUE]
    ELSE [s |-> nextDot(s), ended |-> FALSE]

\* One pass of the dot loop shared by NES.frame and CPU._ppuCatchUp.
\* ended: the NMI countdown ran out and startVBlank was called.
PpuDot(s) == dotEnd(nmiCountdown(spriteZeroDot(s)))

RECURSIVE ppuCatchUpLoop(_)
\* _ppuCatchUp after one dot d: ppuFrameEnded and break, or the next pass
catchUpDot(d) ==
  IF d.ended
    THEN [d.s EXCEPT !.cpu.ppuFrameEnded = TRUE, !.cpu.ppuCatchupDots = @ + 1]
    ELSE ppuCatchUpLoop([d.s EXCEPT !.cpu.ppuCatchupDots = @ + 1])

\* The loop of CPU._ppuCatchUp
ppuCatchUpLoop(s) ==
  IF s.cpu.ppuCatchupDots < s.cpu.instrBusCycles * 3 THEN catchUpDot(PpuDot(s)) ELSE s

\* CPU._ppuCatchUp
ppuCatchUp(s) == ppuCatchUpLoop(s)

(***************************************************************************)
(* PPU registers written by the CPU.                                       *)
(***************************************************************************)
\* PPU.checkSprite0 with empty pattern tables: the hit position is cleared
\* and no opaque sprite pixel is found
checkSprite0(s) == [s EXCEPT !.ppu.spr0HitX = -1, !.ppu.spr0HitY = -1]

\* PPU.updateControlReg1
updateControlReg1(s, value) ==
  [triggerRendering(s) EXCEPT
     !.ppu.f_nmiOnVblank = Bit(value, 7),
     !.ppu.f_spriteSize = Bit(value, 5),
     !.ppu.f_bgPatternTable = Bit(value, 4),
     !.ppu.f_spPatternTable = Bit(value, 3),
     !.ppu.f_addrInc = Bit(value, 2),
     !.ppu.f_nTblAddress = value % 4,
     !.ppu.regV = Bit(value, 1),
     !.ppu.regH = Bit(value, 0),
     !.ppu.regS = Bit(value, 4)]

\* PPU.updateControlReg2 (the palettes it rebuilds are rendering data)
updateControlReg2(s, value) ==
  [triggerRendering(s) EXCEPT
     !.ppu.f_color = (value \div 32) % 8,
     !.ppu.f_spVisibility = Bit(value, 4),
     !.ppu.f_bgVisibility = Bit(value, 3),
     !.ppu.f_spClipping = Bit(value, 2),
     !.ppu.f_bgClipping = Bit(value, 1),
     !.ppu.f_dispType = Bit(value, 0)]

\* PPU.scrollWrite
scrollWrite(s, value) ==
  LET s1 == triggerRendering(s)
  IN IF s1.ppu.firstWrite
       THEN [s1 EXCEPT !.ppu.regHT = (value \div 8) % 32,
                       !.ppu.regFH = value % 8,
                       !.ppu.firstWrite = FALSE]
       ELSE [s1 EXCEPT !.ppu.regFV = value % 8,
                       !.ppu.regVT = (value \div 8) % 32,
                       !.ppu.firstWrite = TRUE]

\* PPU.writeVRAMAddress (Mapper0.latchAccess does nothing)
writeVRAMAddress(s, address) ==
  LET s1 == IF s.ppu.firstWrite
              THEN [s EXCEPT !.ppu.regFV = (address \div 16) % 4,
                             !.ppu.regV = Bit(address, 3),
                             !.ppu.regH = Bit(address, 2),
                             !.ppu.regVT = (s.ppu.regVT % 8) + (address % 4) * 8]
              ELSE LET a == triggerRendering(s)
                       vt == ((a.ppu.regVT \div 8) % 4) * 8 + ((address \div 32) % 8)
                       b == [a EXCEPT !.ppu.regVT = vt,
                                      !.ppu.regHT = address % 32,
                                      !.ppu.cntFV = a.ppu.regFV,
                                      !.ppu.cntV = a.ppu.regV,
                                      !.ppu.cntH = a.ppu.regH,
                                      !.ppu.cntVT = vt,
                                      !.ppu.cntHT = address % 32]
                   IN checkSprite0(b)
  IN cntsToAddress([s1 EXCEPT !.ppu.firstWrite = ~s.ppu.firstWrite])

\* vramMirrorTable[a] as PPU.setMirroring builds it for horizontal mirroring:
\* $3F20, $3F40, $3F80 and $3FC0 (32 bytes each) map to $3F00, $3000-$3EFF
\* to $2000, $4000-$7FFF to $0000, $2400 to $2000 and $2C00 to $2800
vramMirrorTable(a) ==
  IF a >= 16384 THEN a - 16384
  ELSE IF a >= 16160
    THEN (IF ((a - 16128) \div 32) \in {1, 2, 4, 6} THEN 16128 + (a % 32) ELSE a)
  ELSE IF a >= 16128 THEN a
  ELSE IF a >= 12288 THEN a - 4096
  ELSE IF (a >= 9216 /\ a < 10240) \/ (a >= 11264) THEN a - 1024
  ELSE a

\* PPU.mirroredLoad
mirroredLoad(s, address) == VramAt(s.ppu.vramMem, vramMirrorTable(address))

\* PPU.writeMem: vramMem[address] = value (the tile, nametable and palette
\* caches rebuilt from it are not part of the state)
writeMem(s, address, value) ==
  [s EXCEPT !.ppu.vramMem =
     IF value % 256 = 0
       THEN [x \in DOMAIN @ \ {address} |-> @[x]]
       ELSE [x \in DOMAIN @ \cup {address} |->
               IF x = address THEN value % 256 ELSE @[x]]]

\* Mutation of mirroredWrite used to test the claim about the palette mirrors
mirroredWrite_nomirror(s, address, value) ==
  writeMem(s, IF address >= 16128 /\ address < 16160
                THEN address ELSE vramMirrorTable(address), value)

\* PPU.mirroredWrite
mirroredWrite(s, address, value) ==
  IF address >= 16128 /\ address < 16160
    THEN IF address % 4 = 0
           THEN writeMem(writeMem(s, 16128 + (address % 16), value),
                         16144 + (address % 16), value)
           ELSE writeMem(s, address, value)
    ELSE writeMem(s, vramMirrorTable(address), value)

\* PPU.regsFromAddress and PPU.cntsFromAddress
regsFromAddress(s) ==
  [s EXCEPT !.ppu.regFV = (s.ppu.vramTmpAddress \div 4096) % 8,
            !.ppu.regV = Bit(s.ppu.vramTmpAddress, 11),
            !.ppu.regH = Bit(s.ppu.vramTmpAddress, 10),
            !.ppu.regVT = (s.ppu.vramTmpAddress \div 32) % 32,
            !.ppu.regHT = s.ppu.vramTmpAddress % 32]

cntsFromAddress(s) ==
  [s EXCEPT !.ppu.cntFV = (s.ppu.vramAddress \div 4096) % 4,
            !.ppu.cntV = Bit(s.ppu.vramAddress, 11),
            !.ppu.cntH = Bit(s.ppu.vramAddress, 10),
            !.ppu.cntVT = (s.ppu.vramAddress \div 32) % 32,
            !.ppu.cntHT = s.ppu.vramAddress % 32]

\* The end of vramLoad and vramWrite: vramAddress += 32 or 1
vramIncrement(s) ==
  regsFromAddress(cntsFromAddress(
    [s EXCEPT !.ppu.vramAddress = @ + (IF s.ppu.f_addrInc = 1 THEN 32 ELSE 1)]))

\* (vramAddress & 0x1f) with the backdrop mirrors $10/$14/$18/$1C folded
palIdx(address) ==
  IF (address % 32) \in {16, 20, 24, 28} THEN address % 16 ELSE address % 32

\* vramLoad at vramAddress = a: below $3F00 the buffered value is returned
\* and the buffer refilled; palette reads return the 6-bit entry with the
\* open bus latch's top two bits and refill the buffer from (a & $2FFF)
vramLoadAt(s, a) ==
  IF a <= 16127
    THEN [s |-> vramIncrement(
                  [s EXCEPT !.ppu.vramBufferedReadValue =
                     IF a < 8192 THEN VramAt(s.ppu.vramMem, a)
                     ELSE mirroredLoad(s, a)]),
          val |-> s.ppu.vramBufferedReadValue]
    ELSE [s |-> vramIncrement(
                  [s EXCEPT !.ppu.vramBufferedReadValue =
                     mirroredLoad(s, (a % 4096) + Bit(a, 13) * 8192)]),
          val |-> (VramAt(s.ppu.vramMem, 16128 + palIdx(a)) % 64)
                  + ((s.ppu.openBusLatch \div 64) % 4) * 64]

\* PPU.vramLoad
vramLoad(s) ==
  vramLoadAt(regsToAddress(cntsToAddress(s)), cntsToAddress(s).ppu.vramAddress)

\* vramWrite at vramAddress = a
vramWriteAt(s, a, value) ==
  vramIncrement(IF a >= 8192 THEN mirroredWrite(s, a, value)
                ELSE IF s.nes.rom.vromCount = 0 THEN writeMem(s, a, value)
                ELSE s)

\* PPU.vramWrite
vramWrite(s, value) ==
  vramWriteAt(regsToAddress(cntsToAddress(triggerRendering(s))),
              cntsToAddress(s).ppu.vramAddress, value)

\* spriteMem[i] (a Uint8Array, zero-initialised; undefined is stored as 0)
OamByte(v) == IF v = Null THEN 0 ELSE v % 256

\* PPU.sramDMA: 256 bytes of cpu.mem[value * 0x100 ..] go to OAM starting at
\* sramAddress; every write of sprite 0's four bytes re-checks sprite 0
sramDMA(s, value) ==
  LET base == value * 256
      data(k) == OamByte(MemAt(s.mem, s.prg,
                               base + ((k - s.ppu.sramAddress) % 256)))
      nz == {k \in 0..255 : data(k) # 0}
      s1 == checkSprite0([s EXCEPT !.ppu.spriteMem = [k \in nz |-> data(k)]])
  IN haltCycles(s1, 513)

(***************************************************************************)
(* APU frame counter.  The sound channels stay as reset leaves them: no    *)
(* operation of the model writes $4000-$4013 or $4015.                     *)
(***************************************************************************)
FRAME_STEPS_4 == <<7457, 14913, 22371, 29829>>
FRAME_STEPS_5 == <<7457, 14913, 22371, 29829, 37281>>
FRAME_PERIOD_4 == 29830
FRAME_PERIOD_5 == 37282

\* Mutation of fireFrameStep used to test the claim about the inhibit flag
fireFrameStep_always(pa, step) ==
  IF pa.countSequence = 0 /\ step = 3
    THEN [pa EXCEPT !.frameIrqActive = TRUE]
    ELSE pa

\* PAPU.fireFrameStep: the frame interrupt flag (the envelope, length and
\* sweep clocks act on the idle channels only)
fireFrameStep(pa, step) ==
  IF pa.countSequence = 0 /\ step = 3 /\ pa.frameIrqEnabled
    THEN [pa EXCEPT !.frameIrqActive = TRUE]
    ELSE pa

\* Mutation of stepClocks used to test the claim about the sequences
stepClocks_fourStep(countSequence, step) ==
  [quarter |-> TRUE, half |-> step \in {1, 3}]

\* PAPU.fireFrameStep: whether the step calls clockQuarterFrame and
\* clockHalfFrame
stepClocks(countSequence, step) ==
  IF countSequence = 0
    THEN [quarter |-> step \in {0, 1, 2, 3}, half |-> step \in {1, 3}]
    ELSE [quarter |-> step \in {0, 1, 2, 4}, half |-> step \in {1, 4}]

\* The cycle thresholds and the period of the sequence in use
frameSteps(pa) == IF pa.countSequence = 0 THEN FRAME_STEPS_4 ELSE FRAME_STEPS_5
framePeriod(pa) == IF pa.countSequence = 0 THEN FRAME_PERIOD_4 ELSE FRAME_PERIOD_5

\* A Number that is NaN (no counter holds this value)
NotANumber == -1000000

\* a + b of two Numbers, NaN if either is
plus(a, b) == IF a = NotANumber \/ b = NotANumber THEN NotANumber ELSE a + b

\* The condition of the while loop of PAPU.clockFrameCounter (NaN >= x is
\* false)
frameStepDue(pa) ==
  /\ pa.frameCycleCounter # NotANumber
  /\ pa.frameCycleCounter >= frameSteps(pa)[pa.frameStep + 1]

\* The body of that loop: the step fires, then the next step or the wrap
afterFrameStep(pa) ==
  LET p1 == fireFrameStep(pa, pa.frameStep)
  IN IF p1.frameStep + 1 >= Len(frameSteps(pa))
       THEN [p1 EXCEPT !.frameStep = 0,
                       !.frameCycleCounter = @ - framePeriod(pa)]
       ELSE [p1 EXCEPT !.frameStep = @ + 1]

\* The while loop of PAPU.clockFrameCounter and PAPU.advanceFrameCounter
RECURSIVE frameCounterLoop(_)
frameCounterLoop(pa) ==
  IF frameStepDue(pa) THEN frameCounterLoop(afterFrameStep(pa)) ELSE pa

\* The steps that loop fires from pa, in order: the threshold of each and
\* the unit clocks it calls
RECURSIVE frameStepsFired(_)
frameStepsFired(pa) ==
  IF frameStepDue(pa)
    THEN <<[at |-> frameSteps(pa)[pa.frameStep + 1],
            clocks |-> stepClocks(pa.countSequence, pa.frameStep)]>>
         \o frameStepsFired(afterFrameStep(pa))
    ELSE <<>>

\* PAPU.clockFrameCounter(nCycles, frameCounterAlreadyAdvanced); nCycles is
\* undefined when emulate() returned no value, and undefined - n is NaN
clockFrameCounter(s, nCycles, already) ==
  LET fc == IF nCycles = Null THEN NotANumber
            ELSE nCycles - (IF already = Null THEN 0 ELSE already)
      s1 == IF s.papu.frameIrqEnabled /\ s.papu.frameIrqActive
              THEN requestIrq(s, IRQ_NORMAL)
              ELSE s
  IN [s1 EXCEPT !.papu =
        frameCounterLoop([s1.papu EXCEPT !.frameCycleCounter = plus(@, fc)])]

\* PAPU.readReg ($4015): channel and DMC bits are 0 while the channels idle
PAPU_readReg(s) ==
  LET tmp == (IF Bit(s.cpu.dataBus, 5) = 1 THEN 32 ELSE 0)
             + (IF s.papu.frameIrqActive THEN 64 ELSE 0)
  IN [s |-> [s EXCEPT !.papu.frameIrqActive = FALSE], val |-> tmp % 256]

\* PAPU.writeReg, address 0x4017
PAPU_writeReg4017(s, value) ==
  [s EXCEPT !.papu.countSequence = Bit(value, 7),
            !.papu.frameCycleCounter = -6,
            !.papu.frameStep = 0,
            !.papu.frameIrqEnabled = (Bit(value, 6) = 0),
            !.papu.frameIrqActive = IF Bit(value, 6) = 1 THEN FALSE ELSE @]

(***************************************************************************)
(* The base mapper: CPU address decoding, registers, controllers.          *)
(***************************************************************************)
\* Mapper0.joy1Read / joy2Read for controller c
joyRead(s, c) ==
  LET st == IF c = 1 THEN s.mmap.joy1StrobeState ELSE s.mmap.joy2StrobeState
      ret == IF st # Null /\ st < 8 THEN s.controllers[c][st] ELSE 1
      nxt == IF st = Null THEN Null ELSE IF st + 1 = 24 THEN 0 ELSE st + 1
  IN IF And1(s.mmap.joypadLastWrite) = 1
       THEN [s |-> s, val |-> s.controllers[c][0]]
       ELSE [s |-> IF c = 1 THEN [s EXCEPT !.mmap.joy1StrobeState = nxt]
                            ELSE [s EXCEPT !.mmap.joy2StrobeState = nxt],
             val |-> ret]

joy1Read(s) == joyRead(s, 1)
joy2Read(s) == joyRead(s, 2)

\* Mapper0.regLoad for $2000-$4017.  $2004 and $2007 read OAM and VRAM data,
\* which no operation of the model reads: they are given as Null.
\* With the zapper never aimed (zapperX, zapperY unset) its light bit is 8.
regLoad(s, address) ==
  IF address < 16384
    THEN CASE address % 8 = 2 -> readStatusRegister(s)
           [] address % 8 = 4 -> [s |-> s, val |-> Null]
           [] address % 8 = 7 -> vramLoad(s)
           [] OTHER -> [s |-> s, val |-> s.ppu.openBusLatch]
  ELSE IF address = 16405 THEN PAPU_readReg(s)
  ELSE IF address = 16406
    THEN LET r == joy1Read(s)
         IN [s |-> r.s, val |-> Low5(r.val) + High3(s.cpu.dataBus)]
  ELSE IF address = 16407
    THEN LET r == joy2Read(s)
             w == 8 + (IF s.mmap.zapperFired THEN 16 ELSE 0)
         IN [s |-> r.s, val |-> Low5(Or8(r.val, w)) + High3(s.cpu.dataBus)]
  ELSE [s |-> s, val |-> s.cpu.dataBus]

\* Mapper0.load with $4018-$5FFF read from cpu.mem like cartridge RAM
Mapper0_load_stored(s, address) ==
  LET a == address % 65536
  IN IF a > 16407
       THEN [s |-> s, val |-> MemAt(s.mem, s.prg, a)]
       ELSE IF a >= 8192
              THEN regLoad(s, a)
              ELSE [s |-> s, val |-> MemAt(s.mem, s.prg, a % 2048)]

\* Mapper0.load
Mapper0_load(s, address) ==
  LET a == address % 65536
  IN IF a > 16407
       THEN IF a < 24576
              THEN [s |-> s, val |-> s.cpu.dataBus]
              ELSE [s |-> s, val |-> MemAt(s.mem, s.prg, a)]
       ELSE IF a >= 8192
              THEN regLoad(s, a)
              ELSE [s |-> s, val |-> MemAt(s.mem, s.prg, a % 2048)]

\* cpu.mem[a] = v
SetMem(s, a, v) == [s EXCEPT !.mem = MemPut(s.mem, s.prg, a, v)]

\* Mapper0.regWrite.  $2004 (OAM data) and the sound
\* channel registers $4000-$4013, $4015 are written by no operation of the model.
regWrite(s, address, value) ==
  LET s1 == IF address >= 8192 /\ address <= 16383
              THEN [s EXCEPT !.ppu.openBusLatch = value,
                             !.ppu.openBusDecayFrames = 36]
              ELSE s
  IN CASE address = 8192 -> updateControlReg1(SetMem(s1, address, value), value)
       [] address = 8193 -> updateControlReg2(SetMem(s1, address, value), value)
       [] address = 8195 -> [s1 EXCEPT !.ppu.sramAddress = value]
       [] address = 8197 -> scrollWrite(s1, value)
       [] address = 8198 -> writeVRAMAddress(s1, value)
       [] address = 8199 -> vramWrite(s1, value)
       [] address = 16404 -> sramDMA(s1, value)
       [] address = 16406 ->
            IF value % 2 = 0 /\ And1(s1.mmap.joypadLastWrite) = 1
              THEN [s1 EXCEPT !.mmap.joy1StrobeState = 0,
                              !.mmap.joy2StrobeState = 0,
                              !.mmap.joypadLastWrite = value]
              ELSE [s1 EXCEPT !.mmap.joypadLastWrite = value]
       [] address = 16407 -> PAPU_writeReg4017(s1, value)
       [] OTHER -> s1

\* nes.opts.onBatteryRamWrite(address, value)
onBatteryRamWrite(s, address, value) ==
  [s EXCEPT !.out.battery = Append(@, <<address, value>>)]

\* Mutations of Mapper0.write used to test the claims about it
Mapper0_write_nocallback(s, address, value) ==
  IF address < 8192 THEN SetMem(s, address % 2048, value)
  ELSE IF address >= 32768 THEN s
  ELSE IF address > 16407 THEN SetMem(s, address, value)
  ELSE IF address > 8199 /\ address < 16384
    THEN regWrite(s, 8192 + (address % 8), value)
  ELSE regWrite(s, address, value)

Mapper0_write_romwritable(s, address, value) ==
  IF address < 8192 THEN SetMem(s, address % 2048, value)
  ELSE IF address >= 24576 THEN onBatteryRamWrite(SetMem(s, address, value), address, value)
  ELSE IF address > 16407 THEN SetMem(s, address, value)
  ELSE IF address > 8199 /\ address < 16384
    THEN regWrite(s, 8192 + (address % 8), value)
  ELSE regWrite(s, address, value)

\* Mapper0.write
Mapper0_write(s, address, value) ==
  IF address < 8192 THEN SetMem(s, address % 2048, value)
  ELSE IF address >= 32768 THEN s
  ELSE IF address >= 24576 THEN onBatteryRamWrite(SetMem(s, address, value), address, value)
  ELSE IF address > 16407 THEN SetMem(s, address, value)
  ELSE IF address > 8199 /\ address < 16384
    THEN regWrite(s, 8192 + (address % 8), value)
  ELSE regWrite(s, address, value)

\* Mapper0.writelow
Mapper0_writelow(s, address, value) ==
  IF address < 8192 THEN SetMem(s, address % 2048, value)
  ELSE IF address >= 32768 THEN s
  ELSE IF address > 16407 THEN SetMem(s, address, value)
  ELSE IF address > 8199 /\ address < 16384
    THEN regWrite(s, 8192 + (address % 8), value)
  ELSE regWrite(s, address, value)

(***************************************************************************)
(* PRG bank loading and the mappers that override write().  CHR banks and  *)
(* nametable mirroring are rendering data and are not modelled.            *)
(***************************************************************************)
\* Mapper0.load8kRomBank: copy 8192 bytes of the ROM to cpu.mem[address..]
load8kRomBank(s, bank8k, address) ==
  LET bank16k == (bank8k \div 2) % s.nes.rom.romCount
      w == (address - RomBase) \div HalfBank
  IN [s EXCEPT !.prg[w] = [image |-> s.nes.rom.image,
                            bank |-> bank16k * 2 + (bank8k % 2)],
               !.mem = [x \in {y \in DOMAIN s.mem :
                                 y < address \/ y >= address + HalfBank} |-> s.mem[x]]]

\* Mapper0.loadRomBank: copy 16384 bytes of bank (bank % romCount)
loadRomBank(s, bank, address) ==
  LET b == bank % s.nes.rom.romCount
  IN load8kRomBank(load8kRomBank(s, 2 * b, address), 2 * b + 1, address + HalfBank)

\* Mapper0.load32kRomBank
load32kRomBank(s, bank, address) ==
  loadRomBank(loadRomBank(s, (bank * 2) % s.nes.rom.romCount, address),
              (bank * 2 + 1) % s.nes.rom.romCount, address + BankSize)

\* Mapper0.loadPRGROM
loadPRGROM(s) ==
  IF s.nes.rom.romCount > 1
    THEN loadRomBank(loadRomBank(s, 0, 32768), 1, 49152)
    ELSE loadRomBank(loadRomBank(s, 0, 32768), 0, 49152)

\* Mapper classes of the repository
MapperTypes == {0, 1, 2, 3, 4, 5, 7, 11, 34, 38, 66, 94, 140, 180, 240, 241}

\* Whether write() of class Mapper<t> hands the address to Mapper0.write
PassesToBase(t, address) ==
  CASE t = 0 -> TRUE
    [] t \in {1, 4} -> address < 32768
    [] t \in {2, 3, 7, 11, 34, 66, 94, 180, 241} -> address < 32768
    [] t = 5 -> address < 20480
    [] t = 38 -> address < 28672 \/ address > 32767
    [] t = 140 -> address < 24576 \/ address > 32767
    [] t = 240 -> address < 16416 \/ address > 24575

\* What write() of class Mapper<t> does with the other addresses: its PRG
\* bank switch (Mapper3 switches CHR banks only, Mapper5's stubs do nothing)
BankSwitch(s, t, value) ==
  CASE t = 2 -> loadRomBank(s, value, 32768)
    [] t = 7 -> load32kRomBank(s, value % 8, 32768)
    [] t = 11 -> loadRomBank(
                   loadRomBank(s, ((value % 16) * 2) % s.nes.rom.romCount, 32768),
                   ((value % 16) * 2 + 1) % s.nes.rom.romCount, 49152)
    [] t \in {34, 241} -> load32kRomBank(s, value, 32768)
    [] t = 38 -> load32kRomBank(s, value % 4, 32768)
    [] t \in {66, 140, 240} -> load32kRomBank(s, (value \div 16) % 4, 32768)
    [] t = 94 -> loadRomBank(s, value \div 4, 32768)
    [] t = 180 -> loadRomBank(s, value, 49152)
    [] OTHER -> s

\* Mapper4.write for $8000-$FFFF: the scanline counter's registers (the
\* bank and mirroring registers $8000, $8001, $A000 are not part of this
\* model; every other address is ignored)
Mapper4_write(s, address, value) ==
  CASE address = 49152 -> [s EXCEPT !.mmap.irqCounter = value]
    [] address = 49153 -> [s EXCEPT !.mmap.irqLatchValue = value]
    [] address = 57344 -> [s EXCEPT !.mmap.irqEnable = 0]
    [] address = 57345 -> [s EXCEPT !.mmap.irqEnable = 1]
    [] OTHER -> s

\* Mapper1.getRegNumber
getRegNumber(address) ==
  IF address >= 32768 /\ address <= 40959 THEN 0
  ELSE IF address >= 40960 /\ address <= 49151 THEN 1
  ELSE IF address >= 49152 /\ address <= 57343 THEN 2
  ELSE 3

\* A number field used in arithmetic: undefined counts as 0
OrZero(x) == IF x = Null THEN 0 ELSE x

\* Mapper1.setReg, register 3: the PRG bank switch
selectRomBank(s, value) ==
  LET n == s.nes.rom.romCount
      r0 == s.mmap.romSelectionReg0
      r1 == s.mmap.romSelectionReg1
      baseBank == IF n >= 32
                    THEN (IF s.mmap.vromSwitchingSize = 0
                            THEN (IF r0 = 1 THEN 16 ELSE 0)
                            ELSE (OrZero(r0) + 2 * OrZero(r1)) * 8)
                  ELSE IF n >= 16 /\ r0 = 1 THEN 8
                  ELSE 0
  IN IF s.mmap.prgSwitchingSize = 0
       THEN load32kRomBank(s, baseBank + (value % 16), 32768)
     ELSE IF s.mmap.prgSwitchingArea = 0
       THEN loadRomBank(s, baseBank * 2 + (value % 16), 49152)
     ELSE loadRomBank(s, baseBank * 2 + (value % 16), 32768)

\* Mapper1.setReg (the cartridges have no VROM; the PPU's name table
\* mirroring is not part of this model); out.commit records the call
setReg(s, reg, value) ==
  LET s1 == [s EXCEPT !.out.commit = <<reg, value>>]
  IN CASE reg = 0 -> [s1 EXCEPT !.mmap.mirroring = value % 4,
                                !.mmap.prgSwitchingArea = Bit(value, 2),
                                !.mmap.prgSwitchingSize = Bit(value, 3),
                                !.mmap.vromSwitchingSize = Bit(value, 4)]
       [] reg = 1 -> [s1 EXCEPT !.mmap.romSelectionReg0 = Bit(value, 4)]
       [] reg = 2 -> [s1 EXCEPT !.mmap.romSelectionReg1 = Bit(value, 4)]
       [] OTHER -> selectRomBank(s1, value)

\* Mutation of the buffering used to test the claim about it
buffered_shiftLeft(regBuffer, counter, value) ==
  (OrZero(regBuffer) * 2 + (value % 2)) % 32

\* (regBuffer & (0xff - (1 << counter))) | ((value & 1) << counter); an
\* undefined or not-a-number counter shifts by 0
buffered(regBuffer, counter, value) ==
  WithBit(OrZero(regBuffer), OrZero(counter), value % 2)

\* Mapper1.write for $8000-$FFFF.  regBufferCounter++ on an undefined
\* counter gives not-a-number, which never equals 5
Mapper1_write(s, address, value) ==
  IF Bit(value, 7) = 1
    THEN LET s1 == [s EXCEPT !.mmap.regBufferCounter = 0, !.mmap.regBuffer = 0]
         IN IF getRegNumber(address) = 0
              THEN [s1 EXCEPT !.mmap.prgSwitchingArea = 1,
                              !.mmap.prgSwitchingSize = 1]
              ELSE s1
  ELSE LET b == buffered(s.mmap.regBuffer, s.mmap.regBufferCounter, value)
       IN IF s.mmap.regBufferCounter = Null
            THEN [s EXCEPT !.mmap.regBuffer = b]
          ELSE IF s.mmap.regBufferCounter + 1 = 5
            THEN [setReg(s, getRegNumber(address), b)
                    EXCEPT !.mmap.regBuffer = 0, !.mmap.regBufferCounter = 0]
          ELSE [s EXCEPT !.mmap.regBuffer = b, !.mmap.regBufferCounter = @ + 1]

\* The write() of the mapper object in nes.mmap.  Mapper5 is modelled
\* outside its registers $5000-$5206.
Mapper_write(s, address, value) ==
  IF PassesToBase(s.mmap.type, address) THEN Mapper0_write(s, address, value)
  ELSE IF s.mmap.type = 4 THEN Mapper4_write(s, address, value)
  ELSE IF s.mmap.type = 1 THEN Mapper1_write(s, address, value)
  ELSE BankSwitch(s, s.mmap.type, value)

\* No mapper overrides load()
Mapper_load(s, address) == Mapper0_load(s, address)

\* loadROM() of the mapper object: PRG banks, then the reset interrupt
Mapper_loadROM(s) ==
  LET t == s.mmap.type
      n == s.nes.rom.romCount
      s1 == CASE t \in {1, 2, 94, 180} ->
                   loadRomBank(loadRomBank(s, 0, 32768), n - 1, 49152)
              [] t = 4 ->
                   load8kRomBank(load8kRomBank(load8kRomBank(load8kRomBank(s,
                     (n - 1) * 2, 49152), (n - 1) * 2 + 1, 57344), 0, 32768), 1, 40960)
              [] t = 5 ->
                   load8kRomBank(load8kRomBank(load8kRomBank(load8kRomBank(s,
                     n * 2 - 1, 32768), n * 2 - 1, 40960), n * 2 - 1, 49152),
                     n * 2 - 1, 57344)
              [] OTHER -> loadPRGROM(s)
  IN requestIrq(s1, IRQ_RESET)

(***************************************************************************)
(* CPU bus operations.  Each returns the console after the access; a read  *)
(* also returns the value read.                                            *)
(***************************************************************************)
\* The patches of a Game Genie whose address is addr & $7FFF and whose key is
\* undefined (Null) or equal to the value read
matching(gg, addr, value) ==
  {i \in 1..Len(gg.patches) :
     /\ gg.patches[i].addr = addr % 32768
     /\ (gg.patches[i].key = Null \/ gg.patches[i].key = value)}

\* The same loop returning the value of the last matching patch
applyCodes_last(gg, addr, value) ==
  LET hits == matching(gg, addr, value)
  IN IF ~gg.enabled \/ hits = {}
       THEN value
       ELSE gg.patches[CHOOSE i \in hits : \A j \in hits : j <= i].value

\* GameGenie.applyCodes: the loop returns at the first matching patch
applyCodes(gg, addr, value) ==
  LET hits == matching(gg, addr, value)
  IN IF ~gg.enabled \/ hits = {}
       THEN value
       ELSE gg.patches[CHOOSE i \in hits : \A j \in hits : i <= j].value

\* The value of a cartridge read r after the Game Genie patches
patched(gg, addr, r) ==
  IF gg.enabled /\ Len(gg.patches) > 0
    THEN [r EXCEPT !.val = applyCodes(gg, addr, r.val)]
    ELSE r

\* CPU.loadFromCartridge
loadFromCartridge(s, addr) == patched(s.nes.gameGenie, addr, Mapper_load(s, addr))

\* The PPU catch-up CPU.load and CPU.write make before a PPU register access
catchUpFor(s, addr) == IF addr >= 8192 /\ addr < 16384 THEN ppuCatchUp(s) ELSE s

\* CPU.load's read: internal RAM, or the cartridge
readAt(s, addr) ==
  IF addr < 8192
    THEN [s |-> s, val |-> MemAt(s.mem, s.prg, addr % 2048)]
    ELSE loadFromCartridge(s, addr)

\* The value read goes on the data bus and the access takes a bus cycle
onDataBus(r, busCycles) ==
  [s |-> [r.s EXCEPT !.cpu.dataBus = r.val, !.cpu.instrBusCycles = @ + busCycles],
   val |-> r.val]

\* The read r of addr recorded as a CPU.load call
loadCalled(r, addr) ==
  [r EXCEPT !.s.out.bus = Append(@, <<"load", addr, r.val>>)]

\* CPU.load
load(s, addr) == loadCalled(onDataBus(readAt(catchUpFor(s, addr), addr), 1), addr)

\* load16bit's result from the low byte and the read r of the high byte
highByte(lo, r) ==
  [s |-> [r.s EXCEPT !.cpu.dataBus = r.val, !.cpu.instrBusCycles = @ + 2],
   val |-> lo + r.val * 256]

\* load16bit from the cartridge, the low byte r1 read
cartridgeHigh(r1, addr) ==
  highByte(r1.val, loadFromCartridge([r1.s EXCEPT !.cpu.dataBus = r1.val], addr + 1))

\* CPU.load16bit
load16bit(s, addr) ==
  IF addr < 8191
    THEN highByte(MemAt(s.mem, s.prg, addr % 2048),
                  [s |-> s, val |-> MemAt(s.mem, s.prg, (addr + 1) % 2048)])
    ELSE cartridgeHigh(loadFromCartridge(s, addr), addr)

\* CPU.write's store: internal RAM, or the mapper
store(s, addr, val) ==
  IF addr < 8192 THEN SetMem(s, addr % 2048, val) ELSE Mapper_write(s, addr, val)

\* CPU.write
write(s, addr, val) ==
  [store(catchUpFor([s EXCEPT !.cpu.dataBus = val], addr), addr, val)
     EXCEPT !.cpu.instrBusCycles = @ + 1,
            !.out.bus = Append(@, <<"write", addr, val>>)]

\* CPU.push
push(s, value) ==
  [Mapper_write([s EXCEPT !.cpu.dataBus = value], 256 + (s.cpu.REG_SP % 256), value)
     EXCEPT !.cpu.REG_SP = (s.cpu.REG_SP - 1) % 256,
            !.cpu.instrBusCycles = @ + 1]

\* the read of CPU.pull, REG_SP incremented
pullAt(s) == onDataBus(Mapper_load(s, 256 + s.cpu.REG_SP), 1)

\* CPU.pull
pull(s) == pullAt([s EXCEPT !.cpu.REG_SP = (s.cpu.REG_SP + 1) % 256])

(***************************************************************************)
(* CPU.emulate: interrupt dispatch, then one instruction.  The opcode      *)
(* table holds the instructions the test programs use; every other byte    *)
(* the programs contain is an opcode the table leaves invalid.             *)
(***************************************************************************)
\* The processor status byte built at the head of emulate
StatusByte(c) ==
  c.F_CARRY + (IF c.F_ZERO = 0 THEN 2 ELSE 0) + c.F_INTERRUPT * 4
  + c.F_DECIMAL * 8 + c.F_BRK * 16 + c.F_NOTUSED * 32
  + c.F_OVERFLOW * 64 + c.F_SIGN * 128

\* temp & 0xef
ClearB(v) == v - Bit(v, 4) * 16

\* the vector's high byte read: the new PC
vectorHigh(lo, hi) ==
  [hi.s EXCEPT !.cpu.dataBus = hi.val,
               !.cpu.REG_PC_NEW = lo + hi.val * 256 - 1]

\* the vector's low byte read
vectorLow(lo, at) ==
  vectorHigh(lo.val, loadFromCartridge([lo.s EXCEPT !.cpu.dataBus = lo.val], at + 1))

\* The vector fetch that ends doNonMaskableInterrupt, doResetInterrupt, doIrq
fetchVector(s, at) == vectorLow(loadFromCartridge(s, at), at)

\* Mutation of the pushes used to test the claim about interrupt entry
pushReturn_statusFirst(s, status) ==
  push(push(push([s EXCEPT !.cpu.REG_PC_NEW = @ + 1], status),
            ((s.cpu.REG_PC_NEW + 1) \div 256) % 256),
       (s.cpu.REG_PC_NEW + 1) % 256)

\* The three pushes of doNonMaskableInterrupt and doIrq
pushReturn(s, status) ==
  push(push(push([s EXCEPT !.cpu.REG_PC_NEW = @ + 1],
                 ((s.cpu.REG_PC_NEW + 1) \div 256) % 256),
            (s.cpu.REG_PC_NEW + 1) % 256),
       status)

\* CPU.doNonMaskableInterrupt
doNonMaskableInterrupt(s, status) ==
  IF ~s.nes.hasMmap THEN s ELSE fetchVector(pushReturn(s, status), 65530)

\* CPU.doResetInterrupt
doResetInterrupt(s) == fetchVector(s, 65532)

\* CPU.doIrq
doIrq(s, status) ==
  fetchVector([pushReturn(s, status)
                 EXCEPT !.cpu.F_INTERRUPT_NEW = 1, !.cpu.F_BRK_NEW = 0], 65534)

\* Mutation of the switch used to test the claim about the I flag
dispatchInterrupt_unmasked(s, temp) ==
  CASE s.cpu.irqType = IRQ_NORMAL -> doIrq(s, ClearB(temp))
    [] s.cpu.irqType = IRQ_NMI -> doNonMaskableInterrupt(s, ClearB(temp))
    [] s.cpu.irqType = IRQ_RESET -> doResetInterrupt(s)
    [] OTHER -> s

\* The switch on irqType at the head of emulate
dispatchInterrupt(s, temp) ==
  CASE s.cpu.irqType = IRQ_NORMAL ->
         IF s.cpu.F_INTERRUPT # 0 THEN s ELSE doIrq(s, ClearB(temp))
    [] s.cpu.irqType = IRQ_NMI -> doNonMaskableInterrupt(s, ClearB(temp))
    [] s.cpu.irqType = IRQ_RESET -> doResetInterrupt(s)
    [] OTHER -> s

\* ... and the assignments that follow it
commitInterrupt(s) ==
  [s EXCEPT !.cpu.REG_PC = s.cpu.REG_PC_NEW,
            !.cpu.F_INTERRUPT = s.cpu.F_INTERRUPT_NEW,
            !.cpu.F_BRK = s.cpu.F_BRK_NEW,
            !.cpu.irqRequested = FALSE]

\* The head of emulate: "Check interrupts"
checkInterrupts(s) ==
  IF ~s.cpu.irqRequested THEN s
  ELSE commitInterrupt(
         dispatchInterrupt([s EXCEPT !.cpu.REG_PC_NEW = s.cpu.REG_PC,
                                     !.cpu.F_INTERRUPT_NEW = s.cpu.F_INTERRUPT],
                           StatusByte(s.cpu)))

\* Instruction numbers and addressing modes of OpData
INS_ADC == 0
INS_AND == 1
INS_ASL == 2
INS_BPL == 9
INS_BRK == 10
INS_CLI == 15
INS_CMP == 17
INS_DEC == 20
INS_INC == 24
INS_JMP == 27
INS_LDA == 29
INS_LDX == 30
INS_LDY == 31
INS_LSR == 32
INS_NOP == 33
INS_ROL == 39
INS_ROR == 40
INS_RTI == 41
INS_RTS == 42
INS_SBC == 43
INS_SEI == 46
INS_STA == 47
INS_STX == 48
INS_STY == 49
INS_DCP == 62
INS_ISC == 63
INS_RLA == 64
INS_RRA == 65
INS_SLO == 66
INS_SRE == 67

\* The instructions that read a memory operand, modify it and write it back
RmwInstructions ==
  {INS_ASL, INS_LSR, INS_ROL, INS_ROR, INS_INC, INS_DEC,
   INS_SLO, INS_SRE, INS_RLA, INS_RRA, INS_DCP, INS_ISC}

\* The instructions modelled that combine a memory operand with the accumulator
AluInstructions == {INS_ADC, INS_SBC, INS_AND, INS_CMP}
InsInvalid == 255       \* 0xff: the entry of every opcode no setOp fills in
ADDR_ZP == 0
ADDR_REL == 1
ADDR_IMP == 2
ADDR_ABS == 3
ADDR_IMM == 5
ADDR_ZPX == 6
ADDR_ZPY == 7
ADDR_ABSX == 8
ADDR_ABSY == 9
ADDR_POSTIDXIND == 11
ADDR_INDABS == 12

\* Opcodes OpData leaves at 0xff
InvalidOpcodes == {2, 18, 34, 50, 66, 82, 98, 114, 146, 178, 210, 242}

\* Opcodes of the instructions modelled
ModelledOpcodes ==
  {0, 16, 64, 76, 88, 96, 108, 120, 141, 145, 148, 150, 153, 157, 166, 164, 169,
   173, 177, 185, 189, 234,
   14, 15, 45, 46, 47, 78, 79, 109, 110, 111, 205, 206, 207, 237, 238, 239, 254}

\* opdata[opcode] of an instruction in Absolute mode, 3 bytes long
absolute(ins, cycles) == [ins |-> ins, mode |-> ADDR_ABS, size |-> 3, cycles |-> cycles]

\* opdata[opcode], unpacked: instruction, addressing mode, size, cycles
OpInfo(opcode) ==
  CASE opcode = 0 -> [ins |-> INS_BRK, mode |-> ADDR_IMP, size |-> 1, cycles |-> 7]
    [] opcode = 16 -> [ins |-> INS_BPL, mode |-> ADDR_REL, size |-> 2, cycles |-> 2]
    [] opcode = 64 -> [ins |-> INS_RTI, mode |-> ADDR_IMP, size |-> 1, cycles |-> 6]
    [] opcode = 76 -> [ins |-> INS_JMP, mode |-> ADDR_ABS, size |-> 3, cycles |-> 3]
    [] opcode = 88 -> [ins |-> INS_CLI, mode |-> ADDR_IMP, size |-> 1, cycles |-> 2]
    [] opcode = 96 -> [ins |-> INS_RTS, mode |-> ADDR_IMP, size |-> 1, cycles |-> 6]
    [] opcode = 108 -> [ins |-> INS_JMP, mode |-> ADDR_INDABS, size |-> 3, cycles |-> 5]
    [] opcode = 120 -> [ins |-> INS_SEI, mode |-> ADDR_IMP, size |-> 1, cycles |-> 2]
    [] opcode = 141 -> [ins |-> INS_STA, mode |-> ADDR_ABS, size |-> 3, cycles |-> 4]
    [] opcode = 145 -> [ins |-> INS_STA, mode |-> ADDR_POSTIDXIND, size |-> 2, cycles |-> 6]
    [] opcode = 148 -> [ins |-> INS_STY, mode |-> ADDR_ZPX, size |-> 2, cycles |-> 4]
    [] opcode = 150 -> [ins |-> INS_STX, mode |-> ADDR_ZPY, size |-> 2, cycles |-> 4]
    [] opcode = 153 -> [ins |-> INS_STA, mode |-> ADDR_ABSY, size |-> 3, cycles |-> 5]
    [] opcode = 157 -> [ins |-> INS_STA, mode |-> ADDR_ABSX, size |-> 3, cycles |-> 5]
    [] opcode = 164 -> [ins |-> INS_LDY, mode |-> ADDR_ZP, size |-> 2, cycles |-> 3]
    [] opcode = 166 -> [ins |-> INS_LDX, mode |-> ADDR_ZP, size |-> 2, cycles |-> 3]
    [] opcode = 169 -> [ins |-> INS_LDA, mode |-> ADDR_IMM, size |-> 2, cycles |-> 2]
    [] opcode = 173 -> [ins |-> INS_LDA, mode |-> ADDR_ABS, size |-> 3, cycles |-> 4]
    [] opcode = 177 -> [ins |-> INS_LDA, mode |-> ADDR_POSTIDXIND, size |-> 2, cycles |-> 5]
    [] opcode = 185 -> [ins |-> INS_LDA, mode |-> ADDR_ABSY, size |-> 3, cycles |-> 4]
    [] opcode = 189 -> [ins |-> INS_LDA, mode |-> ADDR_ABSX, size |-> 3, cycles |-> 4]
    [] opcode = 234 -> [ins |-> INS_NOP, mode |-> ADDR_IMP, size |-> 1, cycles |-> 2]
    [] opcode = 14 -> absolute(INS_ASL, 6)
    [] opcode = 15 -> absolute(INS_SLO, 6)
    [] opcode = 45 -> absolute(INS_AND, 4)
    [] opcode = 46 -> absolute(INS_ROL, 6)
    [] opcode = 47 -> absolute(INS_RLA, 6)
    [] opcode = 78 -> absolute(INS_LSR, 6)
    [] opcode = 79 -> absolute(INS_SRE, 6)
    [] opcode = 109 -> absolute(INS_ADC, 4)
    [] opcode = 110 -> absolute(INS_ROR, 6)
    [] opcode = 111 -> absolute(INS_RRA, 6)
    [] opcode = 205 -> absolute(INS_CMP, 4)
    [] opcode = 206 -> absolute(INS_DEC, 6)
    [] opcode = 207 -> absolute(INS_DCP, 6)
    [] opcode = 237 -> absolute(INS_SBC, 4)
    [] opcode = 238 -> absolute(INS_INC, 6)
    [] opcode = 239 -> absolute(INS_ISC, 6)
    [] opcode = 254 -> [ins |-> INS_INC, mode |-> ADDR_ABSX, size |-> 3, cycles |-> 7]
    [] OTHER -> [ins |-> InsInvalid, mode |-> ADDR_ZP, size |-> 0, cycles |-> 0]

\* The message of the Error thrown for an invalid opcode (its address omitted)
InvalidOpcodeError == "Game crashed, invalid opcode at address"

\* emulate resets the PPU catch-up counters (and the record of its bus calls
\* starts afresh)
beginInstruction(s) ==
  [s EXCEPT !.cpu.instrBusCycles = 0, !.cpu.ppuCatchupDots = 0,
            !.cpu.ppuFrameEnded = FALSE, !.out.bus = <<>>]

\* the opcode f read at pc + 1
decodeOpcode(f, pc) ==
  [s |-> [f.s EXCEPT !.cpu.dataBus = f.val, !.cpu.instrBusCycles = 1,
                     !.cpu.REG_PC = pc + OpInfo(f.val).size],
   opcode |-> f.val, opaddr |-> pc]

\* the opcode fetch
fetchAt(s) == decodeOpcode(loadFromCartridge(s, s.cpu.REG_PC + 1), s.cpu.REG_PC)

\* emulate up to the opcode fetch: the console, the opcode and its address - 1
fetchOpcode(s) == fetchAt(beginInstruction(checkInterrupts(s)))

\* the operand address from the value r read after the opcode
operandAt(r, mode) ==
  [s |-> r.s,
   addr |-> (IF mode = ADDR_REL
               THEN (IF r.val < 128 THEN r.val + r.s.cpu.REG_PC
                                    ELSE r.val + r.s.cpu.REG_PC - 256)
               ELSE r.val) % 65536]

\* (addr & 0xff00) | (((addr & 0xff) + 1) & 0xff)
samePageNext(addr) == (addr \div 256) * 256 + (((addr % 256) + 1) % 256)

\* Indirect Absolute mode, pointer in the cartridge's range: two
\* loadFromCartridge calls, first the low byte lo, then the high byte hi
indirectHigh(lo, hi) == [s |-> hi.s, val |-> lo + hi.val * 256]

indirectLow(lo, addr) ==
  indirectHigh(lo.val, loadFromCartridge(lo.s, samePageNext(addr)))

\* Indirect Absolute mode, the pointer r read by load16bit: below $1FFF the
\* target is read from this.mem[addr] directly
indirectAbsolute(r) ==
  IF r.val < 8191
    THEN [s |-> r.s,
          val |-> MemAt(r.s.mem, r.s.prg, r.val)
                  + MemAt(r.s.mem, r.s.prg, samePageNext(r.val)) * 256]
    ELSE indirectLow(loadFromCartridge(r.s, r.val), r.val)

\* The index added without the page-crossing dummy read
indexed_noDummy(s, base, index) ==
  [s |-> s, addr |-> (base + index) % 65536,
   cycleAdd |-> IF (base \div 256) % 256 # ((base + index) \div 256) % 256
                  THEN 1 ELSE 0]

\* Modes 8, 9 and 11 from the base address on: where adding the index crosses
\* a page, a dummy read of the address with the uncorrected high byte
indexed(s, base, index) ==
  IF (base \div 256) % 256 # ((base + index) \div 256) % 256
    THEN [s |-> load(s, (base \div 256) * 256 + ((base + index) % 256)).s,
          addr |-> (base + index) % 65536, cycleAdd |-> 1]
    ELSE [s |-> s, addr |-> (base + index) % 65536, cycleAdd |-> 0]

\* Absolute Indexed mode, the base address r read by load16bit
absoluteIndexed(r, index) == indexed(r.s, r.val, index)

\* Post-indexed Indirect mode: the pointer zp read after the opcode, then
\* the low byte lo and the high byte hi of the base address
postIndexedHigh(lo, hi, index) == indexed(hi.s, lo + hi.val * 256, index)

postIndexedLow(lo, zp, index) ==
  postIndexedHigh(lo.val, load(lo.s, (zp + 1) % 256), index)

postIndexed(zp, index) == postIndexedLow(load(zp.s, zp.val), zp.val, index)

\* Zero Page Indexed mode: the base zp read after the opcode, then the dummy
\* read of the unindexed address
zeroPageIndexed(zp, index) ==
  [s |-> load(zp.s, zp.val).s, addr |-> (zp.val + index) % 256]

\* emulate's "Find address mode": the console and the operand address;
\* modes 8, 9 and 11 also give cycleAdd
operandAddress(s, mode, opaddr) ==
  CASE mode \in {ADDR_ZP, ADDR_REL} -> operandAt(load(s, opaddr + 2), mode)
    [] mode = ADDR_ABS -> operandAt(load16bit(s, opaddr + 2), mode)
    [] mode = ADDR_INDABS ->
         operandAt(indirectAbsolute(load16bit(s, opaddr + 2)), mode)
    [] mode = ADDR_IMM -> [s |-> s, addr |-> s.cpu.REG_PC % 65536]
    [] mode = ADDR_ZPX -> zeroPageIndexed(load(s, opaddr + 2), s.cpu.REG_X)
    [] mode = ADDR_ZPY -> zeroPageIndexed(load(s, opaddr + 2), s.cpu.REG_Y)
    [] mode = ADDR_ABSX -> absoluteIndexed(load16bit(s, opaddr + 2), s.cpu.REG_X)
    [] mode = ADDR_ABSY -> absoluteIndexed(load16bit(s, opaddr + 2), s.cpu.REG_Y)
    [] mode = ADDR_POSTIDXIND -> postIndexed(load(s, opaddr + 2), s.cpu.REG_Y)
    [] OTHER -> [s |-> s, addr |-> 0]

\* LDA: the accumulator and flags from the value r read
loadAccumulator(r, cycles) ==
  [s |-> [r.s EXCEPT !.cpu.REG_ACC = r.val,
                     !.cpu.F_SIGN = Bit(r.val, 7),
                     !.cpu.F_ZERO = r.val],
   cycles |-> cycles, err |-> ""]

\* RTI: the flags taken from the status byte t pulled
pullStatus(t) ==
  [t.s EXCEPT !.cpu.F_CARRY = Bit(t.val, 0),
              !.cpu.F_ZERO = IF Bit(t.val, 1) = 0 THEN 1 ELSE 0,
              !.cpu.F_INTERRUPT = Bit(t.val, 2),
              !.cpu.F_DECIMAL = Bit(t.val, 3),
              !.cpu.F_OVERFLOW = Bit(t.val, 6),
              !.cpu.F_SIGN = Bit(t.val, 7)]

\* RTI: the return address pulled as lo and hi
returnTo(lo, hi, cycles) ==
  IF lo + hi.val * 256 = 65535
    THEN [s |-> [hi.s EXCEPT !.cpu.REG_PC = 65535], cycles |-> Null, err |-> ""]
    ELSE [s |-> [hi.s EXCEPT !.cpu.REG_PC = lo + hi.val * 256 - 1],
          cycles |-> cycles, err |-> ""]

pullReturn(lo, cycles) == returnTo(lo.val, pull(lo.s), cycles)

\* RTS: the return address pulled as lo and hi
returnFromSub(lo, hi, cycles) ==
  [s |-> [hi.s EXCEPT !.cpu.REG_PC = lo + hi.val * 256],
   cycles |-> IF lo + hi.val * 256 = 65535 THEN Null ELSE cycles, err |-> ""]

pullReturnFromSub(lo, cycles) == returnFromSub(lo.val, pull(lo.s), cycles)

\* LDX, LDY: the register and flags from the value r read
loadIndex(r, reg, cycles) ==
  [s |-> [r.s EXCEPT !.cpu[reg] = r.val,
                     !.cpu.F_SIGN = Bit(r.val, 7),
                     !.cpu.F_ZERO = r.val],
   cycles |-> cycles, err |-> ""]

\* LDA and STA in modes 8, 9 and 11: LDA adds cycleAdd to its cycles, STA
\* makes the dummy read the addressing mode has not made
executeIndexed(s, inf, addr, cycleAdd) ==
  CASE inf.ins = INS_LDA -> loadAccumulator(load(s, addr), inf.cycles + cycleAdd)
    [] inf.ins = INS_STA ->
         [s |-> write(IF cycleAdd = 0 THEN load(s, addr).s ELSE s, addr,
                      s.cpu.REG_ACC),
          cycles |-> inf.cycles, err |-> ""]
    [] OTHER -> [s |-> s, cycles |-> Null, err |-> InvalidOpcodeError]

\* BRK: the return address and the status byte, B set, pushed
brkPushes(s) ==
  [push(push(push(s, (s.cpu.REG_PC \div 256) % 256), s.cpu.REG_PC % 256),
        StatusByte(s.cpu))
     EXCEPT !.cpu.F_INTERRUPT = 1]

\* BRK: REG_PC from the IRQ vector r
brkVector(r, cycles) ==
  [s |-> [r.s EXCEPT !.cpu.REG_PC = r.val - 1], cycles |-> cycles, err |-> ""]

\* emulate's "Decode & execute instruction".  cycles is Null where the code
\* returns without a value.
execute(s, inf, opaddr, addr) ==
  CASE inf.ins = INS_BPL ->
         IF s.cpu.F_SIGN = 0
           THEN [s |-> [s EXCEPT !.cpu.REG_PC = addr],
                 cycles |-> inf.cycles
                            + (IF (opaddr \div 256) % 256 # addr \div 256 THEN 2 ELSE 1),
                 err |-> ""]
           ELSE [s |-> s, cycles |-> inf.cycles, err |-> ""]
    [] inf.ins = INS_BRK ->
         brkVector(load16bit(brkPushes([s EXCEPT !.cpu.REG_PC = @ + 2,
                                                  !.cpu.F_BRK = 1]), 65534),
                   inf.cycles)
    [] inf.ins = INS_CLI ->
         [s |-> [s EXCEPT !.cpu.F_INTERRUPT = 0], cycles |-> inf.cycles, err |-> ""]
    [] inf.ins = INS_SEI ->
         [s |-> [s EXCEPT !.cpu.F_INTERRUPT = 1], cycles |-> inf.cycles, err |-> ""]
    [] inf.ins = INS_JMP ->
         [s |-> [s EXCEPT !.cpu.REG_PC = addr - 1], cycles |-> inf.cycles, err |-> ""]
    [] inf.ins = INS_LDA -> loadAccumulator(load(s, addr), inf.cycles)
    [] inf.ins = INS_LDX -> loadIndex(load(s, addr), "REG_X", inf.cycles)
    [] inf.ins = INS_LDY -> loadIndex(load(s, addr), "REG_Y", inf.cycles)
    [] inf.ins = INS_NOP -> [s |-> s, cycles |-> inf.cycles, err |-> ""]
    [] inf.ins = INS_RTS -> pullReturnFromSub(pull(s), inf.cycles)
    [] inf.ins = INS_STX ->
         [s |-> write(s, addr, s.cpu.REG_X), cycles |-> inf.cycles, err |-> ""]
    [] inf.ins = INS_STY ->
         [s |-> write(s, addr, s.cpu.REG_Y), cycles |-> inf.cycles, err |-> ""]
    [] inf.ins = INS_RTI -> pullReturn(pull(pullStatus(pull(s))), inf.cycles)
    [] inf.ins = INS_STA ->
         [s |-> write(s, addr, s.cpu.REG_ACC), cycles |-> inf.cycles, err |-> ""]
    [] OTHER -> [s |-> s, cycles |-> Null, err |-> InvalidOpcodeError]

\* ADC's sum of the accumulator, the operand v and the carry; the overflow
\* test takes the operand's sign from w
addWithCarry(c, v, w) ==
  [c EXCEPT !.F_OVERFLOW = IF /\ Bit(c.REG_ACC, 7) = Bit(w, 7)
                              /\ Bit(c.REG_ACC, 7) # Bit(c.REG_ACC + v + c.F_CARRY, 7)
                             THEN 1 ELSE 0,
            !.F_CARRY = IF c.REG_ACC + v + c.F_CARRY > 255 THEN 1 ELSE 0,
            !.F_SIGN = Bit(c.REG_ACC + v + c.F_CARRY, 7),
            !.F_ZERO = (c.REG_ACC + v + c.F_CARRY) % 256,
            !.REG_ACC = (c.REG_ACC + v + c.F_CARRY) % 256]

\* SBC's temp: the accumulator minus the operand v and the borrow
difference(c, v) == c.REG_ACC - v - (1 - c.F_CARRY)

\* SBC's first overflow test: ((REG_ACC ^ temp) & 0x80) !== 0
signChanges(c, v) == Bit(c.REG_ACC, 7) # Bit(difference(c, v) % 256, 7)

\* SBC from temp on; the overflow test takes the operand's sign from w
subtractWithBorrow(c, v, w) ==
  [c EXCEPT !.F_SIGN = Bit(difference(c, v) % 256, 7),
            !.F_ZERO = difference(c, v) % 256,
            !.F_OVERFLOW = IF signChanges(c, v) /\ Bit(c.REG_ACC, 7) # Bit(w, 7)
                             THEN 1 ELSE 0,
            !.F_CARRY = IF difference(c, v) < 0 THEN 0 ELSE 1,
            !.REG_ACC = difference(c, v) % 256]

\* CMP, and the comparison of DCP, with the value v
compare(c, v) ==
  [c EXCEPT !.F_CARRY = IF c.REG_ACC - v >= 0 THEN 1 ELSE 0,
            !.F_SIGN = Bit((c.REG_ACC - v) % 256, 7),
            !.F_ZERO = (c.REG_ACC - v) % 256]

\* The accumulator set to v with the flags N and Z
accumulate(c, v) == [c EXCEPT !.REG_ACC = v, !.F_SIGN = Bit(v, 7), !.F_ZERO = v]

\* ADC reads its operand a second time for the overflow test
addSecond(v, r, cycles) ==
  [s |-> [r.s EXCEPT !.cpu = addWithCarry(@, v, r.val)], cycles |-> cycles, err |-> ""]

\* ADC from the first read r on
addFirst(r, addr, cycles) == addSecond(r.val, load(r.s, addr), cycles)

\* SBC from the read r that supplies the operand's sign to the overflow test
subtractSecond(v, r, cycles) ==
  [s |-> [r.s EXCEPT !.cpu = subtractWithBorrow(@, v, r.val)],
   cycles |-> cycles, err |-> ""]

\* SBC from the first read r on: the second read is made where the first
\* overflow test holds
subtractFirst(r, addr, cycles) ==
  subtractSecond(r.val, IF signChanges(r.s.cpu, r.val) THEN load(r.s, addr) ELSE r,
                 cycles)

\* ADC, SBC, AND, CMP from the read r of the operand on
operateOn(r, ins, addr, cycles) ==
  CASE ins = INS_ADC -> addFirst(r, addr, cycles)
    [] ins = INS_SBC -> subtractFirst(r, addr, cycles)
    [] ins = INS_AND ->
         [s |-> [r.s EXCEPT !.cpu = accumulate(@, AndByte(@.REG_ACC, r.val))],
          cycles |-> cycles, err |-> ""]
    [] ins = INS_CMP ->
         [s |-> [r.s EXCEPT !.cpu = compare(@, r.val)], cycles |-> cycles, err |-> ""]

\* ADC, SBC, AND, CMP: cycleCount += cycleAdd
operate(s, inf, addr, cycleAdd) ==
  operateOn(load(s, addr), inf.ins, addr, inf.cycles + cycleAdd)

\* The value a read-modify-write instruction writes for temp, and the carry
\* it leaves
modified(ins, temp, carry) ==
  CASE ins \in {INS_ASL, INS_SLO} ->
         [val |-> (temp * 2) % 256, carry |-> Bit(temp, 7)]
    [] ins \in {INS_LSR, INS_SRE} -> [val |-> temp \div 2, carry |-> temp % 2]
    [] ins \in {INS_ROL, INS_RLA} ->
         [val |-> ((temp * 2) % 256) + carry, carry |-> Bit(temp, 7)]
    [] ins \in {INS_ROR, INS_RRA} ->
         [val |-> (temp \div 2) + carry * 128, carry |-> temp % 2]
    [] ins \in {INS_INC, INS_ISC} -> [val |-> (temp + 1) % 256, carry |-> carry]
    [] ins \in {INS_DEC, INS_DCP} -> [val |-> (temp - 1) % 256, carry |-> carry]

\* The registers and flags after a read-modify-write instruction wrote m.val
afterModify(c, ins, m) ==
  CASE ins \in {INS_ASL, INS_ROL, INS_ROR, INS_INC, INS_DEC} ->
         [c EXCEPT !.F_CARRY = m.carry, !.F_SIGN = Bit(m.val, 7), !.F_ZERO = m.val]
    [] ins = INS_LSR -> [c EXCEPT !.F_CARRY = m.carry, !.F_SIGN = 0, !.F_ZERO = m.val]
    [] ins = INS_DCP -> compare(c, m.val)
    [] ins = INS_ISC -> subtractWithBorrow(c, m.val, m.val)
    [] ins = INS_RLA ->
         accumulate([c EXCEPT !.F_CARRY = m.carry], AndByte(c.REG_ACC, m.val))
    [] ins = INS_RRA -> addWithCarry([c EXCEPT !.F_CARRY = m.carry], m.val, m.val)
    [] ins = INS_SLO ->
         accumulate([c EXCEPT !.F_CARRY = m.carry], Or8(c.REG_ACC, m.val))
    [] ins = INS_SRE ->
         accumulate([c EXCEPT !.F_CARRY = m.carry], XorByte(c.REG_ACC, m.val))

\* Mutation of the two writes used to test the claim about them
rmwStore_once(s, addr, temp, val) == write(s, addr, val)

\* The dummy write of the value read, then the write of the modified value
rmwStore(s, addr, temp, val) == write(write(s, addr, temp), addr, val)

\* the instruction from the read r of temp on, m the modified value
rmwFrom(r, inf, addr, m) ==
  [s |-> [rmwStore(r.s, addr, r.val, m.val) EXCEPT !.cpu = afterModify(@, inf.ins, m)],
   cycles |-> inf.cycles, err |-> ""]

rmwRead(r, inf, addr) ==
  rmwFrom(r, inf, addr, modified(inf.ins, r.val, r.s.cpu.F_CARRY))

\* A read-modify-write instruction on a memory operand; dummy: the indexed
\* mode has not made its dummy read
readModifyWrite(s, inf, addr, dummy) ==
  rmwRead(load(IF dummy THEN load(s, addr).s ELSE s, addr), inf, addr)

\* cycleAdd, which only modes 8, 9 and 11 set
cycleAddOf(a, inf) ==
  IF inf.mode \in {ADDR_ABSX, ADDR_ABSY, ADDR_POSTIDXIND} THEN a.cycleAdd ELSE 0

\* the instruction executed at the operand address a found
executeAt(a, inf, opaddr) ==
  IF inf.ins \in RmwInstructions
    THEN readModifyWrite(a.s, inf, a.addr,
                         inf.mode \in {ADDR_ABSX, ADDR_ABSY, ADDR_POSTIDXIND}
                           /\ a.cycleAdd = 0)
  ELSE IF inf.ins \in AluInstructions
    THEN operate(a.s, inf, a.addr, cycleAddOf(a, inf))
  ELSE IF inf.mode \in {ADDR_ABSX, ADDR_ABSY, ADDR_POSTIDXIND}
    THEN executeIndexed(a.s, inf, a.addr, a.cycleAdd)
    ELSE execute(a.s, inf, opaddr, a.addr)

\* emulate from the addressing mode on, the opcode f fetched
decodeAndExecute(f) ==
  executeAt(operandAddress(f.s, OpInfo(f.opcode).mode, f.opaddr),
            OpInfo(f.opcode), f.opaddr)

\* CPU.emulate: the console, the cycle count returned, the error thrown
emulate(s) ==
  IF ~s.nes.hasMmap
    THEN [s |-> checkInterrupts(s), cycles |-> 32, err |-> ""]
    ELSE decodeAndExecute(fetchOpcode(s))

(***************************************************************************)
(* The console API: reset, loadROM.                                        *)
(***************************************************************************)
\* Mutation of NES.reset used to test the claim about the crashed flag
NES_reset_keepCrashed(s) ==
  PAPU_reset(PPU_reset(CPU_reset(IF s.nes.hasMmap THEN Mapper_reset(s) ELSE s)))

\* NES.reset
NES_reset(s) ==
  [PAPU_reset(PPU_reset(CPU_reset(IF s.nes.hasMmap THEN Mapper_reset(s) ELSE s)))
     EXCEPT !.nes.crashed = "false"]

\* rom.createMapper(): a mapper object of the class the header names
mapperFor(s) ==
  [s EXCEPT !.mmap = Mapper_new(s.nes.rom.mapperType), !.nes.hasMmap = TRUE]

\* NES.loadROM with data that parses as an iNES file describing `rom`
NES_loadROM(s, rom) ==
  Mapper_loadROM(mapperFor(NES_reset([s EXCEPT !.nes.rom = rom])))

\* NES.loadROM with data that is no iNES file: ROM.load throws before reset()
NES_loadROM_invalid(s) ==
  [s EXCEPT !.nes.rom = NoRom, !.out.err = "Not a valid NES ROM."]

\* The console as one record, and the next-state assignment of every variable
St ==
  [nes |-> nes, cpu |-> cpu, mem |-> mem, prg |-> prg, ppu |-> ppu,
   papu |-> papu, mmap |-> mmap, controllers |-> controllers, out |-> out]

Becomes(s) ==
  \E t \in {s} :
    /\ nes' = t.nes
    /\ cpu' = t.cpu
    /\ mem' = t.mem
    /\ prg' = t.prg
    /\ ppu' = t.ppu
    /\ papu' = t.papu
    /\ mmap' = t.mmap
    /\ controllers' = t.controllers
    /\ out' = t.out

\* The host starts an API call or bus operation: its observations start afresh
Begin(s, op, addr, val) ==
  [s EXCEPT !.out = [@ EXCEPT !.op = op, !.addr = addr, !.val = val,
                              !.err = "", !.battery = <<>>,
                              !.onFrame = 0, !.ran = FALSE, !.path = {},
                              !.bus = <<>>, !.fired = <<>>,
                              !.irqClocks = 0, !.commit = <<>>]]

Starts(s) ==
  /\ nes = s.nes
  /\ cpu = s.cpu
  /\ mem = s.mem
  /\ prg = s.prg
  /\ ppu = s.ppu
  /\ papu = s.papu
  /\ mmap = s.mmap
  /\ controllers = s.controllers
  /\ out = s.out

\* new NES()
Init == Starts(NES_new)

\* A bus access made as the second bus cycle of an instruction: CPU.emulate
\* has reset the catch-up counters and fetched the opcode
AtBusCycle(s) ==
  [s EXCEPT !.cpu.instrBusCycles = 1, !.cpu.ppuCatchupDots = 0,
            !.cpu.ppuFrameEnded = FALSE]

(***************************************************************************)
(* SpecMem: cartridges of every mapper class, CPU writes and reads of      *)
(* RAM, the expansion area, cartridge RAM and ROM.                         *)
(***************************************************************************)
MaxRomCount == 2

\* Cartridges with MaxRomCount PRG banks, each bank marked with its number
MemRoms == {MakeRom(t, MaxRomCount, "banks") : t \in MapperTypes}

\* $0802 (RAM mirror), $6000, $7FFF (cartridge RAM), $8000, $FFFF (ROM)
MemAddrs == {2050, 24576, 32767, 32768, 65535}

\* $11 and $FF select different banks in every bank-switching mapper
MemValues == {17, 255}

\* Mapper1 and Mapper4 are modelled below $8000 only
WriteModelled(s, a) == a < 32768 \/ s.mmap.type \notin {1, 4}

MemLoadROM(r) ==
  /\ nes.pc = "idle"
  /\ Becomes(NES_loadROM(Begin(St, "loadROM", Null, Null), r))

MemWrite(a, v) ==
  /\ nes.hasMmap
  /\ WriteModelled(St, a)
  /\ Becomes(write(AtBusCycle(Begin(St, "write", a, v)), a, v))

MemWritelow(a, v) ==
  /\ nes.hasMmap
  /\ Becomes(Mapper0_writelow(Begin(St, "writelow", a, v), a, v))

Returned(r) == Becomes([r.s EXCEPT !.out.val = r.val])

MemLoad(a) ==
  /\ nes.hasMmap
  /\ Returned(load(AtBusCycle(Begin(St, "load", a, Null)), a))

NextMem ==
  \/ \E r \in MemRoms : MemLoadROM(r)
  \/ \E a \in MemAddrs, v \in MemValues : MemWrite(a, v)
  \/ \E a \in MemAddrs, v \in MemValues : MemWritelow(a, v)
  \/ \E a \in MemAddrs : MemLoad(a)

SpecMem == Init /\ [][NextMem]_vars

\* Mappers whose write() hands every address of $6000-$7FFF to Mapper0.write
SramMappers == {0, 1, 2, 3, 4, 7, 11, 34, 66, 94, 180, 240, 241}

\* The last operation was a CPU write of out.val to out.addr in $6000-$7FFF
SramWritten == out.op = "write" /\ out.addr >= 24576 /\ out.addr <= 32767

\* The byte is stored (a read returns it) and the host was told exactly once
SramStoredAndReported ==
  /\ Mapper_load(St, out.addr).val = out.val
  /\ out.battery = << <<out.addr, out.val>> >>

\* C4 as claimed: for every mapper, a CPU write of v to a in $6000-$7FFF stores
\* v at a and calls onBatteryRamWrite(a, v) exactly once.
C4_EveryMapper == SramWritten => SramStoredAndReported

\* C4 amended: the same for the mappers that leave $6000-$7FFF to Mapper0.write
\* (all but Mapper5, Mapper140 and, from $7000 up, Mapper38).
C4_SramMappers ==
  (SramWritten /\ (mmap.type \in SramMappers \/ (mmap.type = 38 /\ out.addr < 28672)))
    => SramStoredAndReported

C4_Witness ==
  /\ SramWritten
  /\ mmap.type = 2
  /\ out.addr = 32767
  /\ out.val = 255
  /\ out.battery = << <<32767, 255>> >>

\* C5: for Mapper 0, write(a, v) and writelow(a, v) with a in $8000-$FFFF
\* leave every byte of CPU memory unchanged (mem and prg determine every byte
\* of cpu.mem).
C5_RomNotWritable ==
  [][(mmap.type = 0 /\ nes.hasMmap /\ out'.op \in {"write", "writelow"}
      /\ out'.addr >= 32768 /\ mmap' = mmap)
     => (mem' = mem /\ prg' = prg)]_vars

C5_Witness ==
  /\ mmap.type = 0
  /\ out.op = "writelow"
  /\ out.addr = 65535
  /\ out.val = 17
  /\ MemAt(mem, prg, 65535) = RomByte("banks", 1, 16383)

(***************************************************************************)
(* NES.frame.  A call is FrameBegin followed by one FrameStep per          *)
(* iteration of FRAMELOOP; nes.pc tells whether a call is in progress.     *)
(***************************************************************************)
\* The message of the Error frame() throws on a crashed console
CrashedError == "Game has crashed. Call reset() or loadROM() to restart."

RECURSIVE frameDots(_, _)
\* the dots that remain after the dots d, unless those ended the frame
frameDotsNext(d, cycles) == IF d.ended THEN d ELSE frameDots(d.s, cycles)

\* The inner for loop of frame: up to `cycles` dots, cut short by startVBlank
\* (the dots are taken in two halves to keep the evaluation shallow)
frameDots(s, cycles) ==
  IF cycles <= 0 THEN [s |-> s, ended |-> FALSE]
  ELSE IF cycles = 1 THEN PpuDot(s)
  ELSE frameDotsNext(frameDots(s, cycles \div 2), cycles - cycles \div 2)

\* frame from `var finalCurX` to the end of the loop body
advancePpu(s, cycles) ==
  IF ~s.ppu.requestEndFrame /\ s.ppu.curX + cycles < DotsPerLine
     /\ (s.ppu.spr0HitX < s.ppu.curX \/ s.ppu.spr0HitX >= s.ppu.curX + cycles)
    THEN [s |-> [s EXCEPT !.ppu.curX = @ + cycles], ended |-> FALSE]
    ELSE frameDots(s, cycles)

\* Mutation of the catch clause used to test the claim about it
frameCatch_rethrow(s, e) == [s EXCEPT !.nes.pc = "idle", !.out.err = e]

\* frame's catch clause: crashed = true; throw e
frameCatch(s, e) ==
  [s EXCEPT !.nes.crashed = "true", !.nes.pc = "idle", !.out.err = e]

\* frame leaves FRAMELOOP and returns
frameReturn(s) == [s EXCEPT !.nes.pc = "idle"]

\* break FRAMELOOP if the dots ended the frame
breakIfEnded(d) == IF d.ended THEN frameReturn(d.s) ELSE d.s

\* The dots of one iteration, and the return if they end the frame
frameAdvance(s, cycles) == breakIfEnded(advancePpu(s, cycles))

\* cycles * 3 - cpu.ppuCatchupDots: NaN if emulate() returned no value
dotsOwed(cycles, catchup) ==
  IF cycles = Null THEN NotANumber ELSE cycles * 3 - catchup

\* the iteration from the APU clocking on; with NaN dots neither
\* finalCurX < 341 nor cycles > 0 holds, and no dot runs
afterClock(s, cycles) ==
  IF s.cpu.ppuFrameEnded
    THEN frameReturn([s EXCEPT !.cpu.apuCatchupCycles = 0, !.cpu.ppuCatchupDots = 0,
                               !.cpu.ppuFrameEnded = FALSE])
    ELSE IF dotsOwed(cycles, s.cpu.ppuCatchupDots) = NotANumber
      THEN [s EXCEPT !.cpu.apuCatchupCycles = 0, !.cpu.ppuCatchupDots = 0]
      ELSE frameAdvance([s EXCEPT !.cpu.apuCatchupCycles = 0, !.cpu.ppuCatchupDots = 0],
                        dotsOwed(cycles, s.cpu.ppuCatchupDots))

\* the iteration from the return of emulate on
afterEmulate(e) ==
  IF e.err # "" THEN frameCatch(e.s, e.err)
  ELSE afterClock(clockFrameCounter(e.s, e.cycles, e.s.cpu.apuCatchupCycles), e.cycles)

\* Mutation of the halted branch used to test the claim about it
frameIteration_noHalt(s, e) == afterEmulate(e)

\* One iteration of FRAMELOOP, e what this.cpu.emulate() does from s
frameIteration(s, e) ==
  IF s.cpu.cyclesToHalt = 0
    THEN afterEmulate(e)
    ELSE IF s.cpu.cyclesToHalt > 8
      THEN frameAdvance([clockFrameCounter(s, 8, Null)
                           EXCEPT !.cpu.cyclesToHalt = @ - 8], 24)
      ELSE frameAdvance([clockFrameCounter(s, s.cpu.cyclesToHalt, Null)
                           EXCEPT !.cpu.cyclesToHalt = 0], s.cpu.cyclesToHalt * 3)

\* emulate throws or returns a cycle count
Completes(e) == e.err # "" \/ e.cycles # Null

\* The next iteration runs an instruction of the modelled table (or none)
CanStep(s) ==
  \/ ~s.nes.hasMmap
  \/ s.cpu.cyclesToHalt # 0
  \/ fetchOpcode(s).opcode \in ModelledOpcodes \cup InvalidOpcodes

\* What emulate() does in the iteration about to run; a halted CPU runs none
stepEmulate(s) ==
  IF s.cpu.cyclesToHalt = 0 THEN emulate(s) ELSE [s |-> s, cycles |-> 0, err |-> ""]

\* the tags of an iteration that runs emulate, e its result
emulateTags(s, e) ==
  (IF s.cpu.irqRequested /\ s.cpu.irqType = IRQ_NMI THEN {"nmi"} ELSE {})
  \cup (IF s.nes.hasMmap /\ e.err = "" /\ e.s.cpu.ppuCatchupDots > 0
          THEN {"catchup"} ELSE {})
  \cup (IF s.nes.hasMmap /\ e.err = "" /\ e.s.cpu.ppuFrameEnded
          THEN {"catchupEnd"} ELSE {})

\* How the iteration about to run uses the CPU: halted, dispatching an NMI,
\* catching the PPU up inside the instruction, ending the frame in the catch-up
StepTags(s, e) == IF s.cpu.cyclesToHalt # 0 THEN {"halt"} ELSE emulateTags(s, e)

(***************************************************************************)
(* SpecFrame: the host loads cartridges, resets and runs frames.           *)
(***************************************************************************)
MaxFrames == 2

\* Mapper 0 cartridges with one PRG bank holding a test program
FrameImages == {"poll", "nmi", "late", "invalid", "armclear", "armset"}
FrameRoms == {MakeRom(0, 1, i) : i \in FrameImages}

FrameLoadROM(r) ==
  /\ nes.pc = "idle"
  /\ Becomes(NES_loadROM(Begin(St, "loadROM", Null, Null), r))

FrameLoadROMInvalid ==
  /\ nes.pc = "idle"
  /\ Becomes(NES_loadROM_invalid(Begin(St, "loadROM", Null, Null)))

FrameReset ==
  /\ nes.pc = "idle"
  /\ Becomes(NES_reset(Begin(St, "reset", Null, Null)))

\* PPU.startFrame: the frame buffer is filled with the backdrop colour and
\* pixrendered with 65
startFrame(s) == [s EXCEPT !.ppu.pixrendered = 65]

\* frame() up to the loop: the crashed check and ppu.startFrame
FrameBegin ==
  /\ nes.pc = "idle"
  /\ out.frames < MaxFrames
  /\ LET s == [Begin(St, "frame", Null, Null)
                 EXCEPT !.out.frames = @ + 1, !.out.dots = 0, !.out.cycles = 0]
     IN IF s.nes.crashed = "true"
          THEN Becomes([s EXCEPT !.out.err = CrashedError])
          ELSE Becomes([startFrame(s) EXCEPT !.nes.pc = "loop"])

\* Scanlines per frame, and the PPU's position in the frame in dots
LinesPerFrame == 262
DotPosition(p) == p.scanline * DotsPerLine + p.curX

\* The CPU cycles the iteration about to run spends: an instruction's, or
\* up to 8 cycles of DMA stall
StepCycles(s, e) ==
  IF s.cpu.cyclesToHalt = 0 THEN (IF e.cycles = Null THEN 0 ELSE e.cycles)
  ELSE IF s.cpu.cyclesToHalt > 8 THEN 8 ELSE s.cpu.cyclesToHalt

\* The console t after an iteration from s, the iteration's cycles and dots
\* counted (an iteration that throws counts nothing)
Counted(s, t, c) ==
  IF t.out.err # "" THEN t
  ELSE [t EXCEPT !.out.cycles = @ + c,
                 !.out.dots = @ + ((DotPosition(t.ppu) - DotPosition(s.ppu))
                                    % (LinesPerFrame * DotsPerLine))]

\* The console after the iteration whose emulate() does e, with the
\* iteration's tags, cycles and dots recorded
stepped(s, e) ==
  [Counted(s, frameIteration(s, e), StepCycles(s, e))
     EXCEPT !.out.ran = @ \/ s.cpu.cyclesToHalt = 0,
            !.out.path = @ \cup StepTags(s, e)]

FrameStep ==
  /\ nes.pc = "loop"
  /\ CanStep(St)
  /\ \E e \in {stepEmulate(St)} :
       /\ Completes(e)
       /\ Becomes(stepped(St, e))

NextFrame ==
  \/ \E r \in FrameRoms : FrameLoadROM(r)
  \/ FrameLoadROMInvalid
  \/ FrameReset
  \/ FrameBegin
  \/ FrameStep

SpecFrame == Init /\ [][NextFrame]_vars

\* C1: once the crashed flag is set, every frame() fails with the "crashed"
\* error without executing any CPU instruction, until reset() or loadROM() is
\* called; a reset() or a loadROM() that returns leaves crashed false.
C1_CrashedUntilReset ==
  [][/\ (nes.crashed = "true" /\ out'.op = "frame")
          => /\ out'.err = CrashedError
             /\ ~out'.ran
             /\ nes'.pc = "idle"
             /\ nes'.crashed = "true"
             /\ UNCHANGED <<cpu, mem, prg, ppu, papu, mmap, controllers>>
     /\ (nes.crashed = "true" /\ nes'.crashed # "true")
          => out'.op \in {"reset", "loadROM"}
     /\ (out'.op = "reset" \/ (out'.op = "loadROM" /\ out'.err = ""))
          => nes'.crashed = "false"
    ]_vars

C1_Witness ==
  /\ nes.crashed = "true"
  /\ out.op = "frame"
  /\ out.err = CrashedError
  /\ ~out.ran
  /\ out.frames = 2

\* The iteration of FRAMELOOP about to run fetches an opcode OpData leaves invalid
FetchesInvalid ==
  /\ nes.pc = "loop"
  /\ cpu.cyclesToHalt = 0
  /\ nes.hasMmap
  /\ fetchOpcode(St).opcode \in InvalidOpcodes

\* C2: an invalid opcode fetched during frame() makes frame() throw the
\* "invalid opcode" error with crashed true when the error reaches the caller;
\* any error thrown in mid-frame ends the frame and sets crashed.
C2_InvalidOpcodeCrashes ==
  [][/\ FetchesInvalid
          => (out'.err = InvalidOpcodeError /\ nes'.crashed = "true" /\ nes'.pc = "idle")
     /\ (nes.pc = "loop" /\ out'.err # "")
          => (nes'.crashed = "true" /\ nes'.pc = "idle")
    ]_vars

C2_Witness ==
  /\ nes.rom.image = "late"
  /\ out.op = "frame"
  /\ out.err = InvalidOpcodeError
  /\ nes.crashed = "true"
  /\ nes.pc = "idle"
  /\ Bit(cpu.REG_ACC, 7) = 1

\* frame() has returned normally
FrameReturned == out.op = "frame" /\ nes.pc = "idle" /\ out.err = ""

\* C3: every frame() that returns normally has invoked onFrame exactly once,
\* whatever halt cycles, PPU catch-up and NMIs occurred in it.
C3_OnFrameOnce == FrameReturned => out.onFrame = 1

C3_Witness ==
  /\ FrameReturned
  /\ out.onFrame = 1
  /\ {"halt", "nmi", "catchup"} \subseteq out.path

\* C14: a frame() that returns has advanced the PPU by three dots for every
\* CPU cycle its instructions took and every DMA stall cycle it spent
C14_DotsAreThreePerCycle == FrameReturned => out.dots = 3 * out.cycles

\* The iteration just taken is the one in which the NMI countdown expired
\* (startVBlank ran)
CountdownExpires == nes.pc = "loop" /\ out'.onFrame = out.onFrame + 1

\* $2000 bit 7 at that instant: an expiry inside a bus-cycle catch-up comes
\* before the instruction's own access, an expiry in the dot loop after the
\* whole instruction
BitAtExpiry ==
  IF "catchupEnd" \in out'.path THEN ppu.f_nmiOnVblank ELSE ppu'.f_nmiOnVblank

\* C18: when the NMI countdown armed at the start of VBlank expires, an NMI
\* is requested exactly if $2000 bit 7 is set at that instant, whatever the
\* bit was when the countdown was armed
C18_NmiByBitAtExpiry ==
  [][CountdownExpires =>
       ((cpu'.irqRequested /\ cpu'.irqType = IRQ_NMI) <=> BitAtExpiry = 1)]_vars

\* a frame has ended with the NMI requested although bit 7 was clear when
\* the countdown was armed
C18_Witness ==
  /\ FrameReturned /\ out.onFrame = 1
  /\ out.armed = 0 /\ ppu.f_nmiOnVblank = 1
  /\ cpu.irqRequested /\ cpu.irqType = IRQ_NMI

(***************************************************************************)
(* SpecNmi: frames of the programs that run with NMI enabled; "armkeep"    *)
(* ends its first frame inside the catch-up of a STA $2000.                *)
(***************************************************************************)
NmiImages == {"nmi", "armkeep"}
NmiRoms == {MakeRom(0, 1, i) : i \in NmiImages}

NextNmi ==
  \/ \E r \in NmiRoms : FrameLoadROM(r)
  \/ FrameReset
  \/ FrameBegin
  \/ FrameStep

SpecNmi == Init /\ [][NextNmi]_vars

\* The iteration just taken ran an instruction whose PPU catch-up ended the
\* frame and requested the NMI
NmiInCatchUp ==
  /\ nes.pc = "loop"
  /\ cpu.cyclesToHalt = 0
  /\ ~cpu.irqRequested
  /\ "catchupEnd" \notin out.path
  /\ "catchupEnd" \in out'.path
  /\ cpu'.irqRequested
  /\ cpu'.irqType = IRQ_NMI

\* The iteration just taken ran emulate() with an NMI pending
NmiPending ==
  /\ nes.pc = "loop"
  /\ cpu.cyclesToHalt = 0
  /\ cpu.irqRequested
  /\ cpu.irqType = IRQ_NMI

\* C29: an NMI requested by the PPU catch-up inside an instruction leaves the
\* instruction as it is (the program counter moves past it, nothing is
\* pushed, the request stays pending, the frame ends); the next emulate()
\* pushes the address of the following instruction and runs the first
\* instruction of the NMI handler
C29_NmiAtInstructionBoundary ==
  [][/\ NmiInCatchUp
          => /\ cpu'.REG_PC = cpu.REG_PC + OpInfo(MemAt(mem, prg, cpu.REG_PC + 1)).size
             /\ cpu'.REG_SP = cpu.REG_SP
             /\ nes'.pc = "idle"
     /\ NmiPending
          => /\ MemAt(mem', prg', 256 + ((cpu'.REG_SP + 3) % 256)) * 256
                  + MemAt(mem', prg', 256 + ((cpu'.REG_SP + 2) % 256))
                = cpu.REG_PC + 1
             /\ cpu'.REG_SP = (cpu.REG_SP - 3) % 256
             /\ cpu'.REG_PC = 32834]_vars

\* A frame has ended inside the catch-up of the STA $2000 at $800E with the
\* NMI requested and not yet serviced
C29_Witness ==
  /\ FrameReturned
  /\ "catchupEnd" \in out.path
  /\ cpu.irqRequested /\ cpu.irqType = IRQ_NMI
  /\ cpu.REG_PC = 32784

\* PPUSTATUS bit 7 in cpu.mem[0x2002]
VBlankFlag(m, p) == Bit(MemAt(m, p, StatusAddr), STATUS_VBLANK)

\* emulate up to the operand address, the opcode f fetched
AtOperand(f) == operandAddress(f.s, OpInfo(f.opcode).mode, f.opaddr)

\* The iteration of FRAMELOOP about to run executes opcode op on address a
Runs(s, op, a) ==
  /\ s.nes.pc = "loop"
  /\ s.cpu.cyclesToHalt = 0
  /\ s.nes.hasMmap
  /\ fetchOpcode(s).opcode = op
  /\ AtOperand(fetchOpcode(s)).addr = a

\* The console when that instruction's access to $2002 reaches the PPU
BeforeAccess(s) == catchUpFor(AtOperand(fetchOpcode(s)).s, StatusAddr)

\* The step takes the PPU through the end of scanline 261, where VBlank is set
VBlankStarted == ppu.scanline = 261 /\ ppu'.scanline = 0

\* The value of a second read of $2002 made straight after a first one
SecondRead(s) == readStatusRegister(readStatusRegister(s).s).val

\* C10: a read of $2002 (LDA $2002) reports VBlank as it was before the read,
\* clears it and resets the $2005/$2006 toggle to first-write; a second read
\* with no VBlank start in between reports it clear (the flag is clear after
\* the read, and rises only where scanline 261 ends).
C10_StatusRead ==
  [][/\ Runs(St, 173, StatusAddr)
          => /\ Bit(cpu'.REG_ACC, 7) = VBlankFlag(BeforeAccess(St).mem, BeforeAccess(St).prg)
             /\ VBlankFlag(readStatusRegister(BeforeAccess(St)).s.mem, prg) = 0
             /\ Bit(SecondRead(BeforeAccess(St)), 7) = 0
             /\ ppu'.firstWrite
             /\ (VBlankFlag(mem', prg') = 1 => VBlankStarted)
     /\ (VBlankFlag(mem, prg) = 0 /\ VBlankFlag(mem', prg') = 1) => VBlankStarted
    ]_vars

C10_Witness ==
  /\ nes.rom.image = "poll"
  /\ nes.pc = "loop"
  /\ cpu.REG_PC = 32770
  /\ Bit(cpu.REG_ACC, 7) = 1
  /\ VBlankFlag(mem, prg) = 0
  /\ ppu.firstWrite

(***************************************************************************)
(* SpecJoy: controller 1 read through $4016.  The host presses and         *)
(* releases buttons; the CPU writes the strobe and reads the port.         *)
(***************************************************************************)
MaxReads == 25

JoyButtons == {0, 7}        \* BUTTON_A, BUTTON_RIGHT
JoyRom == MakeRom(0, 1, "poll")

\* Controller.buttonDown / buttonUp of controller c
buttonDown(s, c, b) == [s EXCEPT !.controllers[c][b] = ButtonPressed]
buttonUp(s, c, b) == [s EXCEPT !.controllers[c][b] = ButtonReleased]

\* What the host knows after a write of v to $4016, `last` the write before:
\* a 1 then 0 starts a read sequence over the buttons held now
Strobed(s, last, v) ==
  IF v % 2 = 1 THEN [s EXCEPT !.out.reads = Null]
  ELSE IF And1(last) = 1
    THEN [s EXCEPT !.out.reads = 0, !.out.latch = s.controllers[1]]
    ELSE s

\* ... and after a read of $4016
JoyReturned(r) ==
  Becomes([r.s EXCEPT !.out.val = r.val,
                      !.out.reads = IF @ = Null THEN Null ELSE @ + 1])

JoyLoadROM ==
  /\ nes.pc = "idle"
  /\ Becomes([NES_loadROM(Begin(St, "loadROM", Null, Null), JoyRom)
                EXCEPT !.out.reads = Null])

JoyButtonDown(b) ==
  /\ nes.pc = "idle"
  /\ Becomes(buttonDown(Begin(St, "buttonDown", b, Null), 1, b))

JoyButtonUp(b) ==
  /\ nes.pc = "idle"
  /\ Becomes(buttonUp(Begin(St, "buttonUp", b, Null), 1, b))

JoyStrobe(v) ==
  /\ nes.hasMmap
  /\ Becomes(Strobed(write(AtBusCycle(Begin(St, "write4016", 16406, v)), 16406, v),
                     mmap.joypadLastWrite, v))

JoyRead ==
  /\ nes.hasMmap
  /\ out.reads = Null \/ out.reads < MaxReads
  /\ JoyReturned(load(AtBusCycle(Begin(St, "read4016", 16406, Null)), 16406))

NextJoy ==
  \/ JoyLoadROM
  \/ \E b \in JoyButtons : JoyButtonDown(b)
  \/ \E b \in JoyButtons : JoyButtonUp(b)
  \/ \E v \in {0, 1} : JoyStrobe(v)
  \/ JoyRead

SpecJoy == Init /\ [][NextJoy]_vars

\* C8: after a strobe the first 8 reads of $4016 return the latched A, B,
\* SELECT, START, UP, DOWN, LEFT, RIGHT in bit 0 and every later read returns
\* 1 until the next strobe (stated for reads made while the buttons are as
\* they were at the strobe).
C8_ReadsAfterStrobe ==
  (out.op = "read4016" /\ out.reads # Null /\ controllers[1] = out.latch)
    => Bit(out.val, 0) = IF out.reads <= 8 THEN out.latch[out.reads - 1] % 2 ELSE 1

(***************************************************************************)
(* SpecApu: the frame counter.  The CPU writes $4017 and reads $4015; the  *)
(* frame loop clocks the APU with the cycles of each instruction.          *)
(***************************************************************************)
MaxWraps == 1

\* Cycles of one clocking (a halted iteration of the frame loop: 8)
ApuCycles == {8}

\* $4017 values: 4-step and 5-step mode, interrupt allowed and inhibited
ApuModes == {0, 64, 128, 192}

ApuLoadROM ==
  /\ nes.pc = "idle"
  /\ Becomes([NES_loadROM(Begin(St, "loadROM", Null, Null), JoyRom)
                EXCEPT !.out.inhibit = Null, !.out.wraps = 0])

ApuWrite4017(v) ==
  /\ nes.hasMmap
  /\ Becomes([write(AtBusCycle(Begin(St, "write4017", 16407, v)), 16407, v)
                EXCEPT !.out.inhibit = Bit(v, 6), !.out.wraps = 0])

ApuRead4015 ==
  /\ nes.hasMmap
  /\ Returned(load(AtBusCycle(Begin(St, "read4015", 16405, Null)), 16405))

\* The host sees a sequence complete when the cycle counter falls
Clocked(s, before) ==
  Becomes([s EXCEPT !.out.wraps =
             IF s.papu.frameCycleCounter < before THEN @ + 1 ELSE @])

ApuClock(n) ==
  /\ nes.hasMmap
  /\ out.wraps < MaxWraps
  /\ Clocked(clockFrameCounter(Begin(St, "clock", Null, n), n, Null),
             papu.frameCycleCounter)

NextApu ==
  \/ ApuLoadROM
  \/ \E v \in ApuModes : ApuWrite4017(v)
  \/ ApuRead4015
  \/ \E n \in ApuCycles : ApuClock(n)

SpecApu == Init /\ [][NextApu]_vars

\* C9: after a write to $4017 with bit 6 set, every read of $4015 returns
\* bit 6 = 0, after any number of cycles and in either sequence mode, until
\* $4017 is written with bit 6 clear.
C9_InhibitedIrqFlag ==
  (out.op = "read4015" /\ out.inhibit = 1) => Bit(out.val, 6) = 0

C9_Witness ==
  /\ out.op = "read4015"
  /\ out.inhibit = 1
  /\ out.wraps = 1
  /\ papu.countSequence = 0
  /\ Bit(out.val, 6) = 0

(***************************************************************************)
(* Save states: NES.toJSON and NES.fromJSON.  utils.toJSON copies the      *)
(* properties an object lists in JSON_PROPERTIES; utils.fromJSON assigns   *)
(* them back.                                                              *)
(***************************************************************************)
\* CPU.JSON_PROPERTIES without "mem" (cpu.mem is the pair mem, prg)
CPU_JSON_PROPERTIES ==
  {"cyclesToHalt", "irqRequested", "irqType",
   "REG_ACC", "REG_X", "REG_Y", "REG_SP", "REG_PC", "REG_PC_NEW", "REG_STATUS",
   "F_CARRY", "F_DECIMAL", "F_INTERRUPT", "F_INTERRUPT_NEW", "F_OVERFLOW",
   "F_SIGN", "F_ZERO", "F_NOTUSED", "F_NOTUSED_NEW", "F_BRK", "F_BRK_NEW"}

\* PPU.JSON_PROPERTIES, the fields of the model among them
PPU_JSON_PROPERTIES ==
  {"vramMem", "vramBufferedReadValue", "spriteMem", "cntFV", "cntV", "cntH", "cntVT", "cntHT",
   "regFV", "regV", "regH", "regVT", "regHT", "regFH", "regS",
   "vramAddress", "vramTmpAddress",
   "f_nmiOnVblank", "f_spriteSize", "f_bgPatternTable", "f_spPatternTable",
   "f_addrInc", "f_nTblAddress", "f_color", "f_spVisibility", "f_bgVisibility",
   "f_spClipping", "f_bgClipping", "f_dispType",
   "firstWrite", "openBusLatch", "openBusDecayFrames", "sramAddress", "hitSpr0",
   "curX", "scanline", "lastRenderedScanline", "pixrendered",
   "requestEndFrame", "dummyCycleToggle", "nmiCounter"}

\* PAPU's JSON_PROPERTIES, the fields of the model among them
PAPU_JSON_PROPERTIES ==
  {"frameIrqEnabled", "frameIrqActive", "frameCycleCounter", "frameStep",
   "countSequence"}

\* utils.toJSON(obj) and utils.fromJSON(obj, state)
utils_toJSON(obj, props) == [k \in props |-> obj[k]]
utils_fromJSON(obj, props, state) ==
  [k \in DOMAIN obj |-> IF k \in props THEN state[k] ELSE obj[k]]

\* Mapper0.toJSON
Mapper0_toJSON(s) ==
  [joy1StrobeState |-> s.mmap.joy1StrobeState,
   joy2StrobeState |-> s.mmap.joy2StrobeState,
   joypadLastWrite |-> s.mmap.joypadLastWrite]

\* NES.toJSON
NES_toJSON(s) ==
  [cpu |-> [props |-> utils_toJSON(s.cpu, CPU_JSON_PROPERTIES),
            mem |-> s.mem, prg |-> s.prg],
   mmap |-> Mapper0_toJSON(s),
   ppu |-> utils_toJSON(s.ppu, PPU_JSON_PROPERTIES),
   papu |-> utils_toJSON(s.papu, PAPU_JSON_PROPERTIES)]

\* A state object without one of its keys
Without(json, key) == [k \in DOMAIN json \ {key} |-> json[k]]

\* The TypeError of a property read on undefined or null
TypeError == "TypeError"

\* CPU.fromJSON
CPU_fromJSON(s, state) ==
  [s EXCEPT !.cpu = utils_fromJSON(s.cpu, CPU_JSON_PROPERTIES, state.props),
            !.mem = state.mem,
            !.prg = state.prg]

\* Mapper0.fromJSON
Mapper0_fromJSON(s, state) ==
  [s EXCEPT !.mmap.joy1StrobeState = state.joy1StrobeState,
            !.mmap.joy2StrobeState = state.joy2StrobeState,
            !.mmap.joypadLastWrite = state.joypadLastWrite]

\* PPU.fromJSON: the properties, then spriteRamWriteUpdate for every OAM
\* byte, which re-checks sprite 0
PPU_fromJSON(s, state) ==
  checkSprite0([s EXCEPT !.ppu = utils_fromJSON(s.ppu, PPU_JSON_PROPERTIES, state)])

\* PAPU.fromJSON (the channels stay as reset leaves them)
PAPU_fromJSON(s, state) ==
  [s EXCEPT !.papu = utils_fromJSON(s.papu, PAPU_JSON_PROPERTIES, state)]

\* fromJSON from this.mmap.fromJSON(s.mmap) on: a TypeError if the console
\* has no mapper or the state has no mmap
fromJSON_mmap(s, json) ==
  IF s.nes.hasMmap /\ "mmap" \in DOMAIN json
    THEN PAPU_fromJSON(PPU_fromJSON(Mapper0_fromJSON(s, json["mmap"]), json["ppu"]),
                       json["papu"])
    ELSE [s EXCEPT !.out.err = TypeError]

\* NES.fromJSON: reset(), then the components in the order cpu, mmap, ppu, papu
NES_fromJSON(s, json) == fromJSON_mmap(CPU_fromJSON(NES_reset(s), json["cpu"]), json)

(***************************************************************************)
(* SpecJson: the host loads a cartridge, fires the zapper, saves and loads *)
(* states; the CPU writes RAM and registers.                               *)
(***************************************************************************)
MaxSaves == 2
MaxWrites == 3

\* $0002 := 1, $2005 := 8, $4016 := 1, $4017 := 128
JsonWrites == {<<2, 1>>, <<8197, 8>>, <<16406, 1>>, <<16407, 128>>}

\* NES.zapperFireDown / zapperFireUp
zapperFire(s, down) == IF s.nes.hasMmap THEN [s EXCEPT !.mmap.zapperFired = down] ELSE s

JsonLoadROM ==
  /\ nes.pc = "idle"
  /\ Becomes(NES_loadROM(Begin(St, "loadROM", Null, Null), JoyRom))

JsonZapperFireDown ==
  /\ nes.pc = "idle"
  /\ Becomes(zapperFire(Begin(St, "zapperFireDown", Null, Null), TRUE))

JsonZapperFireUp ==
  /\ nes.pc = "idle"
  /\ Becomes(zapperFire(Begin(St, "zapperFireUp", Null, Null), FALSE))

JsonWrite(w) ==
  /\ nes.hasMmap
  /\ out.writes < MaxWrites
  /\ Becomes(write(AtBusCycle([Begin(St, "write", w[1], w[2])
                                 EXCEPT !.out.writes = @ + 1]), w[1], w[2]))

\* toJSON() throws on a console without a mapper
JsonToJSON ==
  /\ out.saves < MaxSaves
  /\ IF nes.hasMmap
       THEN Becomes([Begin(St, "toJSON", Null, Null)
                       EXCEPT !.out.saved = <<NES_toJSON(St)>>, !.out.saves = @ + 1])
       ELSE Becomes([Begin(St, "toJSON", Null, Null) EXCEPT !.out.err = TypeError])

JsonFromJSON ==
  /\ Len(out.saved) = 1
  /\ Becomes(NES_fromJSON(Begin(St, "fromJSON", Null, Null), out.saved[1]))

\* fromJSON with a state object that lacks the mapper's part
JsonFromJSONBad ==
  /\ Len(out.saved) = 1
  /\ Becomes(NES_fromJSON(Begin(St, "fromJSON", Null, Null),
                          Without(out.saved[1], "mmap")))

NextJson ==
  \/ JsonLoadROM
  \/ JsonZapperFireDown
  \/ JsonZapperFireUp
  \/ \E w \in JsonWrites : JsonWrite(w)
  \/ JsonToJSON
  \/ JsonFromJSON
  \/ JsonFromJSONBad

SpecJson == Init /\ [][NextJson]_vars

\* The CPU, PPU, APU, mapper and controllers of consoles a and b are equal
\* (of the CPU: memory and the saved registers; the sprite 0 hit position,
\* rebuilt from OAM, is left out)
SameComponents(a, b) ==
  /\ utils_toJSON(a.cpu, CPU_JSON_PROPERTIES) = utils_toJSON(b.cpu, CPU_JSON_PROPERTIES)
  /\ a.mem = b.mem
  /\ a.prg = b.prg
  /\ utils_toJSON(a.ppu, PPU_JSON_PROPERTIES) = utils_toJSON(b.ppu, PPU_JSON_PROPERTIES)
  /\ a.papu = b.papu
  /\ a.mmap = b.mmap
  /\ a.controllers = b.controllers

\* The console after the step
StNext ==
  [nes |-> nes', cpu |-> cpu', mem |-> mem', prg |-> prg', ppu |-> ppu',
   papu |-> papu', mmap |-> mmap', controllers |-> controllers', out |-> out']

\* C6: fromJSON(toJSON(s)) equals s in every component (CPU, PPU, APU, mapper,
\* controllers): a fromJSON of the state saved from the present console
\* leaves the components as they are.
C6_RoundTrip ==
  [][(out'.op = "fromJSON" /\ out'.err = "" /\ out.saved = <<NES_toJSON(St)>>)
       => SameComponents(St, StNext)]_vars

\* C7: a fromJSON that fails on a structurally mismatched state leaves the
\* console as it was before the call.
C7_FailedLoadChangesNothing ==
  [][(out'.op = "fromJSON" /\ out'.err # "")
       => UNCHANGED <<nes, cpu, mem, prg, ppu, papu, mmap, controllers>>]_vars

(***************************************************************************)
(* SpecVram: the PPU address and data ports.  The CPU sets the VRAM        *)
(* address through $2006, writes and reads palette RAM through $2007 and   *)
(* writes $2000, which leaves its value on the PPU's open bus latch.       *)
(***************************************************************************)
MaxVramOps == 6

\* $2006 := $3F, $00, $0C, $10, $1C; $2007 := $15, $FF; $2000 := $80
VramWrites ==
  {<<8198, 63>>, <<8198, 0>>, <<8198, 12>>, <<8198, 16>>, <<8198, 28>>,
   <<8199, 21>>, <<8199, 255>>, <<8192, 128>>}

\* $3F00/$04/$08/$0C and $3F10/$14/$18/$1C, and the mirror of each
Backdrops == {16128 + 4 * k : k \in 0..7}
Partner(a) == IF a >= 16144 THEN a - 16 ELSE a + 16

\* The address the next $2007 access uses
DataPortAddress == cntsToAddress(St).ppu.vramAddress

\* out.pal after the write w
PalWritten(w) ==
  IF w[1] # 8199 THEN out.pal
  ELSE IF DataPortAddress \in Backdrops THEN <<DataPortAddress, w[2]>>
  ELSE <<>>

\* loadROM resets the PPU: palette RAM holds nothing the host wrote
VramLoadROM ==
  /\ nes.pc = "idle"
  /\ Becomes(NES_loadROM([Begin(St, "loadROM", Null, Null)
                            EXCEPT !.out.pal = <<>>], JoyRom))

VramWrite(w) ==
  /\ nes.hasMmap
  /\ out.writes < MaxVramOps
  /\ Becomes(write(AtBusCycle([Begin(St, "write", w[1], w[2])
                                 EXCEPT !.out.writes = @ + 1,
                                        !.out.pal = PalWritten(w)]), w[1], w[2]))

VramRead ==
  /\ nes.hasMmap
  /\ out.writes < MaxVramOps
  /\ Returned(load(AtBusCycle([Begin(St, "load", 8199, Null)
                                 EXCEPT !.out.writes = @ + 1]), 8199))

NextVram ==
  \/ VramLoadROM
  \/ \E w \in VramWrites : VramWrite(w)
  \/ VramRead

SpecVram == Init /\ [][NextVram]_vars

\* A $2007 read at the mirror of the backdrop entry last written
ReadsMirror ==
  /\ out'.op = "load"
  /\ out.pal # <<>>
  /\ DataPortAddress = Partner(out.pal[1])

\* C11 as stated: the read of the mirror returns the byte v written
C11_MirrorReturnsWritten == [][ReadsMirror => out'.val = out.pal[2]]_vars

\* C11: a $2007 read of the mirror of a backdrop palette entry ($3F00/$04/
\* $08/$0C <-> $3F10/$14/$18/$1C) returns the low six bits of the byte last
\* written to the entry, with the top two bits of the PPU open bus latch
C11_MirrorReturnsSixBits ==
  [][ReadsMirror => out'.val = (out.pal[2] % 64)
                                + ((ppu.openBusLatch \div 64) % 4) * 64]_vars

\* $FF was written to $3F10 and $3F00 read back as $3F
C11_Witness ==
  /\ out.op = "load"
  /\ out.pal = <<16144, 255>>
  /\ ppu.vramAddress = 16129
  /\ out.val = 63

(***************************************************************************)
(* SpecCpu: CPU.emulate, one call per step, on the program ProgCpu.  The   *)
(* host writes internal RAM through its mirrors and requests interrupts    *)
(* between instructions.                                                   *)
(***************************************************************************)
MaxSteps == 4

CpuRom == MakeRom(0, 1, "cpu")

\* $1010 and $1811: mirrors of RAM $0010 and $0011
CpuAddrs == {4112, 6161}
CpuValues == {0, 128}

CpuLoadROM ==
  /\ nes.pc = "idle"
  /\ Becomes(NES_loadROM([Begin(St, "loadROM", Null, Null)
                            EXCEPT !.out.requested = {IRQ_RESET},
                                   !.out.ram = EmptyMem, !.out.steps = 0], CpuRom))

CpuWrite(a, v) ==
  /\ nes.hasMmap
  /\ Becomes(write(AtBusCycle([Begin(St, "write", a, v)
                                 EXCEPT !.out.ram = [x \in DOMAIN @ \cup {a % 2048} |->
                                                       IF x = a % 2048 THEN v ELSE @[x]]]),
                    a, v))

CpuRequestIrq(type) ==
  /\ nes.hasMmap
  /\ Becomes(requestIrq([Begin(St, "requestIrq", type, Null)
                           EXCEPT !.out.requested = @ \cup {type}], type))

\* One CPU.emulate() call; the instructions outside the opcode table of the
\* model are not run
CpuEmulate ==
  /\ nes.hasMmap
  /\ out.steps < MaxSteps
  /\ fetchOpcode(St).opcode \in ModelledOpcodes
  /\ Becomes(emulate([Begin(St, "emulate", cpu.REG_PC, Null)
                        EXCEPT !.out.steps = @ + 1,
                               !.out.requested = {},
                               !.out.irq = IF cpu.irqRequested THEN cpu.irqType ELSE Null,
                               !.out.opcode = fetchOpcode(St).opcode]).s)

NextCpu ==
  \/ CpuLoadROM
  \/ \E a \in CpuAddrs, v \in CpuValues : CpuWrite(a, v)
  \/ \E type \in {IRQ_NORMAL, IRQ_NMI, IRQ_RESET} : CpuRequestIrq(type)
  \/ CpuEmulate

SpecCpu == Init /\ [][NextCpu]_vars

\* The step is an emulate() call that executed opcode op
Executes(op) == out'.op = "emulate" /\ out'.opcode = op

\* C12: RAM is mirrored every $800: LDA $0810 loads the byte the host wrote
\* to $1010, and JMP ($0810) jumps to the address the host wrote to $1010
\* (low byte) and $1811 (high byte)
C12_RamMirrored ==
  [][/\ (Executes(173) /\ 16 \in DOMAIN out.ram) => cpu'.REG_ACC = out.ram[16]
     /\ (Executes(108) /\ out'.addr = 32848 /\ out'.irq = Null
          /\ {16, 17} \subseteq DOMAIN out.ram)
          => cpu'.REG_PC + 1 = out.ram[16] + out.ram[17] * 256]_vars

\* C13: after an instruction, dataBus is the byte of its last bus cycle:
\* the opcode for CLI, SEI and NOP, the byte loaded for LDA, the high byte
\* of the target for JMP (indirect), the high byte of the vector for BRK
C13_DataBusLastCycle ==
  [][/\ (\E op \in {88, 120, 234} : Executes(op)) => cpu'.dataBus = out'.opcode
     /\ Executes(173) => cpu'.dataBus = cpu'.REG_ACC
     /\ (Executes(108) \/ Executes(0))
          => cpu'.dataBus = ((cpu'.REG_PC + 1) \div 256) % 256]_vars

\* The emulate() step entered the handler of interrupt kind k: the reset
\* handler's CLI at $8000, the NMI handler's JMP at $8040 or the IRQ
\* handler's NOP at $8050 was executed, after three pushes for NMI and IRQ
Serviced(k) ==
  CASE k = IRQ_RESET -> cpu'.REG_PC = 32768
    [] k = IRQ_NMI -> cpu'.REG_PC = 32831 /\ cpu'.REG_SP = (cpu.REG_SP - 3) % 256
    [] OTHER -> cpu'.REG_PC = 32848 /\ cpu'.REG_SP = (cpu.REG_SP - 3) % 256

\* reset above NMI above IRQ
Highest(kinds) ==
  IF IRQ_RESET \in kinds THEN IRQ_RESET
  ELSE IF IRQ_NMI \in kinds THEN IRQ_NMI ELSE IRQ_NORMAL

\* C15: when several interrupt kinds were requested since the last
\* instruction boundary, emulate() services the one of highest priority
C15_HighestPriorityServiced ==
  [][(out'.op = "emulate" /\ Cardinality(out.requested) > 1)
       => Serviced(Highest(out.requested))]_vars

\* C16: an IRQ pending with the I flag set is not serviced (the instruction
\* at the program counter is executed), and a pending NMI is serviced,
\* whatever the I flag
C16_IrqMaskedNmiNot ==
  [][out'.op = "emulate" =>
       /\ (cpu.irqRequested /\ cpu.irqType = IRQ_NORMAL /\ cpu.F_INTERRUPT # 0)
            => (~Serviced(IRQ_NORMAL)
                /\ out'.opcode = MemAt(mem, prg, cpu.REG_PC + 1))
       /\ (cpu.irqRequested /\ cpu.irqType = IRQ_NMI) => Serviced(IRQ_NMI)]_vars

\* An NMI was serviced with the I flag set (the NMI entry leaves it set)
C16_Witness ==
  /\ out.op = "emulate"
  /\ out.irq = IRQ_NMI
  /\ cpu.F_INTERRUPT = 1
  /\ cpu.REG_PC = 32831

\* The k-th byte from the top of the stack after the step
Pushed(k) == MemAt(mem', prg', 256 + ((cpu'.REG_SP + k) % 256))

\* C17: on entry to an NMI or IRQ handler the stack holds, from the top, the
\* status byte with B clear, PC low and PC high of the next instruction;
\* after BRK the same with B set and the address after BRK's padding byte
C17_InterruptEntryPushes ==
  [][out'.op = "emulate" =>
       /\ (\/ (cpu.irqRequested /\ cpu.irqType = IRQ_NMI)
           \/ (cpu.irqRequested /\ cpu.irqType = IRQ_NORMAL /\ cpu.F_INTERRUPT = 0))
            => /\ Pushed(3) = ((cpu.REG_PC + 1) \div 256) % 256
               /\ Pushed(2) = (cpu.REG_PC + 1) % 256
               /\ Pushed(1) = StatusByte(cpu) - cpu.F_BRK * 16
       /\ (out'.opcode = 0 /\ ~cpu.irqRequested)
            => /\ Pushed(3) = ((cpu.REG_PC + 3) \div 256) % 256
               /\ Pushed(2) = (cpu.REG_PC + 3) % 256
               /\ Pushed(1) = StatusByte(cpu) - cpu.F_BRK * 16 + 16]_vars

\* BRK at $8005 was executed: the status byte on the stack has B set
C17_Witness ==
  /\ out.op = "emulate"
  /\ out.opcode = 0
  /\ out.addr = 32772
  /\ cpu.REG_PC = 32847
  /\ Bit(MemAt(mem, prg, 256 + ((cpu.REG_SP + 1) % 256)), 4) = 1
  /\ MemAt(mem, prg, 256 + ((cpu.REG_SP + 2) % 256)) = 7

(***************************************************************************)
(* SpecBus: single CPU bus cycles on a mapper 0 cartridge: writes to RAM   *)
(* and the expansion area, reads of RAM and of the unmapped addresses.     *)
(* The DMC channel is never enabled, so no sample fetch overlaps a read.   *)
(***************************************************************************)
\* $4000, $4014 (write-only APU/DMA registers), $4018, $5FFF (expansion area)
OpenBusAddrs == {16384, 16404, 16408, 24575}

\* $0010 (RAM) and the expansion area, which Mapper0.write stores into
BusWriteAddrs == {16, 16408, 24575}
BusValues == {17, 255}

BusLoadROM ==
  /\ nes.pc = "idle"
  /\ Becomes(NES_loadROM(Begin(St, "loadROM", Null, Null), JoyRom))

BusWrite(a, v) ==
  /\ nes.hasMmap
  /\ Becomes(write(AtBusCycle(Begin(St, "write", a, v)), a, v))

BusLoad(a) ==
  /\ nes.hasMmap
  /\ Returned(load(AtBusCycle(Begin(St, "load", a, Null)), a))

NextBus ==
  \/ BusLoadROM
  \/ \E a \in BusWriteAddrs, v \in BusValues : BusWrite(a, v)
  \/ \E a \in OpenBusAddrs \cup {16} : BusLoad(a)

SpecBus == Init /\ [][NextBus]_vars

\* C19: a CPU read of $4000-$4014 or $4018-$5FFF returns the byte of the bus
\* cycle before it (the value that cycle read or wrote), whatever has been
\* written to the address read
C19_OpenBusRead ==
  [][(out'.op = "load" /\ out'.addr \in OpenBusAddrs /\ out.op \in {"load", "write"})
       => out'.val = out.val]_vars

\* $4018 holds a written $11 in cpu.mem and is read as $FF, the byte of the
\* cycle before
C19_Witness ==
  /\ out.op = "load" /\ out.addr = 16408
  /\ MemAt(mem, prg, 16408) = 17
  /\ out.val = 255

(***************************************************************************)
(* SpecDma: CPU writes to RAM, cartridge RAM, OAMADDR ($2003) and the OAM  *)
(* DMA register ($4014) on a mapper 0 cartridge.                           *)
(***************************************************************************)
MaxDmaOps == 4

\* $0010 := $11, $6010 := $11, OAMADDR := $F0, DMA from pages $00 (RAM),
\* $08 (RAM through its first mirror) and $60 (cartridge RAM)
DmaWrites ==
  {<<16, 17>>, <<24592, 17>>, <<8195, 240>>, <<16404, 0>>, <<16404, 8>>, <<16404, 96>>}

DmaLoadROM ==
  /\ nes.pc = "idle"
  /\ Becomes(NES_loadROM(Begin(St, "loadROM", Null, Null), JoyRom))

DmaWrite(w) ==
  /\ nes.hasMmap
  /\ out.writes < MaxDmaOps
  /\ Becomes(write(AtBusCycle([Begin(St, "write", w[1], w[2])
                                 EXCEPT !.out.writes = @ + 1]), w[1], w[2]))

NextDma ==
  \/ DmaLoadROM
  \/ \E w \in DmaWrites : DmaWrite(w)

SpecDma == Init /\ [][NextDma]_vars

\* The byte a CPU read of address a (RAM or cartridge RAM) returns
CpuReads(a) ==
  IF a < 8192 THEN MemAt(mem, prg, a % 2048) ELSE MemAt(mem, prg, a)

\* C20: a CPU write of V to $4014 puts the byte the CPU reads at $VV00 + i
\* into OAM[(OAMADDR + i) mod 256] for every i in 0..255, and adds 513 to
\* the CPU's halt cycles
C20_DmaCopiesPage ==
  [][(out'.op = "write" /\ out'.addr = 16404)
       => /\ cpu'.cyclesToHalt = cpu.cyclesToHalt + 513
          /\ \A i \in 0..255 :
               OamAt(ppu'.spriteMem, (ppu.sramAddress + i) % 256)
                 = CpuReads(out'.val * 256 + i)]_vars

(***************************************************************************)
(* SpecWrap: CPU.emulate on the program ProgWrap after the host has        *)
(* written pointers into RAM.                                              *)
(***************************************************************************)
WrapRom == MakeRom(0, 1, "wrap")

\* $02FF := $10/$20/$30, $0200 := $80 (targets $8010, $8020, $8030);
\* $07FF := $30, $0700 := $80 (target $8030)
WrapWrites == {<<767, 16>>, <<767, 32>>, <<767, 48>>, <<512, 128>>,
               <<2047, 48>>, <<1792, 128>>}

WrapLoadROM ==
  /\ nes.pc = "idle"
  /\ Becomes(NES_loadROM([Begin(St, "loadROM", Null, Null)
                            EXCEPT !.out.steps = 0], WrapRom))

\* the host writes RAM before the program runs
WrapWrite(w) ==
  /\ nes.hasMmap
  /\ out.steps = 0
  /\ Becomes(write(AtBusCycle(Begin(St, "write", w[1], w[2])), w[1], w[2]))

NextWrap ==
  \/ WrapLoadROM
  \/ \E w \in WrapWrites : WrapWrite(w)
  \/ CpuEmulate

SpecWrap == Init /\ [][NextWrap]_vars

\* The operand word of the instruction at program counter pc (= address - 1)
OperandWord(pc) == MemAt(mem, prg, pc + 2) + MemAt(mem, prg, pc + 3) * 256

\* The instruction executed is the JMP (indirect) placed at address a
JumpsThrough(a) == Executes(108) /\ cpu.REG_PC = a - 1 /\ ~cpu.irqRequested

\* C21: JMP ($xxFF) jumps to the address whose low byte the CPU reads at
\* $xxFF and whose high byte it reads at $xx00, for every page xx
C21_JmpPageWrap ==
  [][\A a \in {32784, 32800, 32816} :
       JumpsThrough(a)
         => cpu'.REG_PC + 1 = CpuReads(OperandWord(a - 1))
                              + CpuReads(OperandWord(a - 1) - 255) * 256]_vars

(***************************************************************************)
(* SpecHit: the host writes a sprite tile into pattern table 1 and the     *)
(* control registers, then runs a frame.  Sprite 0 is OAM's power-on       *)
(* sprite: tile 0 at x = 0, its first row on scanline 1.                   *)
(***************************************************************************)
\* The frame is followed up to this scanline
MaxHitLine == 24

\* The host's writes in order, with the alternatives of each:
\* $2006 := $10, $2006 := $00 (VRAM address $1000), $2007 := the low bit
\* plane of row 0 of tile 256, $2000 := $08 (sprites use pattern table 1,
\* the background pattern table 0), $2001 := sprites and/or background on
HitScript ==
  <<{<<8198, 16>>}, {<<8198, 0>>}, {<<8199, 255>>, <<8199, 0>>}, {<<8192, 8>>},
    {<<8193, 24>>, <<8193, 16>>, <<8193, 8>>}>>

HitRom == MakeRom(0, 1, "late")

HitLoadROM ==
  /\ nes.pc = "idle"
  /\ out.frames = 0
  /\ Becomes(NES_loadROM([Begin(St, "loadROM", Null, Null)
                            EXCEPT !.out.writes = 0], HitRom))

HitWrite(w) ==
  /\ nes.hasMmap /\ nes.pc = "idle" /\ out.frames = 0
  /\ out.writes < Len(HitScript)
  /\ w \in HitScript[out.writes + 1]
  /\ Becomes(write(AtBusCycle([Begin(St, "write", w[1], w[2])
                                 EXCEPT !.out.writes = @ + 1]), w[1], w[2]))

HitBegin ==
  /\ nes.hasMmap /\ out.writes = Len(HitScript)
  /\ FrameBegin

HitStep ==
  /\ ppu.scanline < MaxHitLine
  /\ FrameStep

NextHit ==
  \/ HitLoadROM
  \/ \E w \in UNION {HitScript[i] : i \in DOMAIN HitScript} : HitWrite(w)
  \/ HitBegin
  \/ HitStep

SpecHit == Init /\ [][NextHit]_vars

\* Some pixel of the background is not transparent: every name table entry
\* is tile 0 of the background's pattern table
BackgroundOpaque ==
  \E row \in 0..7, col \in 0..7 : tilePix(ppu.vramMem, ppu.regS * 256, row, col) # 0

\* C22: the sprite 0 hit flag is set only with background and sprites both
\* displayed and a pixel of sprite 0 over a background pixel that is not
\* transparent
C22_HitNeedsOpaqueBackground ==
  Bit(MemAt(mem, prg, StatusAddr), STATUS_SPRITE0HIT) = 1
    => /\ ppu.f_bgVisibility = 1 /\ ppu.f_spVisibility = 1
       /\ BackgroundOpaque

(***************************************************************************)
(* Game Genie patches: patches are added, the device is switched on and    *)
(* off, and the CPU reads cartridge addresses.                             *)
(***************************************************************************)
MaxPatches == 2

GenieRom == MakeRom(0, 1, "poll")

\* The patches added: two without a key and two with a key on $8000, one
\* on $8001
GeniePatches ==
  {[addr |-> 0, value |-> 17, key |-> Null], [addr |-> 0, value |-> 34, key |-> Null],
   [addr |-> 0, value |-> 51, key |-> RomByte("poll", 0, 0)],
   [addr |-> 0, value |-> 68, key |-> 1],
   [addr |-> 1, value |-> 85, key |-> Null]}

GenieAddrs == {32768, 32769, 49152}

GenieLoadROM ==
  /\ nes.pc = "idle"
  /\ Becomes(NES_loadROM(Begin(St, "loadROM", Null, Null), GenieRom))

\* nes.gameGenie.addPatch(addr, value, key)
GenieAddPatch(p) ==
  /\ Len(nes.gameGenie.patches) < MaxPatches
  /\ Becomes([Begin(St, "addPatch", p.addr, p.value)
                EXCEPT !.nes.gameGenie.patches = Append(@, p)])

\* nes.gameGenie.setEnabled(b)
GenieSetEnabled(b) ==
  /\ nes.gameGenie.enabled # b
  /\ Becomes([Begin(St, "setEnabled", Null, Null) EXCEPT !.nes.gameGenie.enabled = b])

\* nes.gameGenie.removeAllCodes()
GenieRemoveAllCodes ==
  /\ Len(nes.gameGenie.patches) > 0
  /\ Becomes([Begin(St, "removeAllCodes", Null, Null)
                EXCEPT !.nes.gameGenie.patches = <<>>])

\* cpu.load(a) of a cartridge address
GenieLoad(a) ==
  /\ nes.hasMmap
  /\ a \in GenieAddrs
  /\ Returned(load(AtBusCycle(Begin(St, "load", a, Null)), a))

NextGenie ==
  \/ GenieLoadROM
  \/ \E p \in GeniePatches : GenieAddPatch(p)
  \/ \E b \in BOOLEAN : GenieSetEnabled(b)
  \/ GenieRemoveAllCodes
  \/ \E a \in GenieAddrs : GenieLoad(a)

SpecGenie == Init /\ [][NextGenie]_vars

\* The patches installed on address a whose key is absent or is the byte b
Applicable(a, b) ==
  {i \in 1..Len(nes.gameGenie.patches) :
     /\ nes.gameGenie.patches[i].addr = a % 32768
     /\ nes.gameGenie.patches[i].key \in {Null, b}}

\* C23: a CPU read of a ROM address a returns the stored byte when Game
\* Genie is disabled or no installed patch on a & $7FFF has an absent key
\* or a key equal to the stored byte, and otherwise the value of the
\* first-added such patch
C23_GenieRead ==
  [][\A a \in GenieAddrs :
       out'.op = "load" /\ out'.addr = a
         => LET b == MemAt(mem, prg, a)
                hits == Applicable(a, b)
            IN out'.val =
                 IF nes.gameGenie.enabled /\ hits # {}
                   THEN nes.gameGenie.patches[CHOOSE i \in hits :
                                                \A j \in hits : i <= j].value
                   ELSE b]_vars

\* Two patches without key on $8000 are installed and the read returned the
\* value of the first one
C23_Witness ==
  /\ out.op = "load"
  /\ out.addr = 32768
  /\ nes.gameGenie.enabled
  /\ Len(nes.gameGenie.patches) = 2
  /\ nes.gameGenie.patches[1].addr = 0
  /\ nes.gameGenie.patches[2].addr = 0
  /\ nes.gameGenie.patches[1].key = Null
  /\ nes.gameGenie.patches[2].key = Null
  /\ nes.gameGenie.patches[1].value # nes.gameGenie.patches[2].value
  /\ out.val = nes.gameGenie.patches[1].value
(***************************************************************************)
(* Game Genie codes: a code is the sequence of its letters.                *)
(***************************************************************************)
LETTER_VALUES ==
  <<"A", "P", "Z", "L", "G", "I", "T", "Y", "E", "O", "X", "U", "K", "S", "V", "N">>

\* LETTER_VALUES.indexOf(letter)
toDigit(letter) == (CHOOSE i \in 1..16 : LETTER_VALUES[i] = letter) - 1

\* LETTER_VALUES.substr(digit, 1)
toLetter(digit) == LETTER_VALUES[digit + 1]

\* x & 8
And8(x) == Bit(x, 3) * 8

\* GameGenie.decode; key is Null where the code leaves it undefined
decode(code) ==
  LET digits == [i \in 1..Len(code) |-> toDigit(code[i])]
      value == And8(digits[1]) * 16 + (digits[2] % 8) * 16 + (digits[1] % 8)
      addr == (digits[4] % 8) * 4096 + And8(digits[5]) * 256
              + (digits[6] % 8) * 256 + And8(digits[2]) * 16
              + (digits[3] % 8) * 16 + And8(digits[4]) + (digits[5] % 8)
  IN [value |-> IF Len(digits) = 8 THEN value + And8(digits[8])
                                   ELSE value + And8(digits[6]),
      addr |-> addr,
      wantskey |-> digits[3] \div 8 # 0,
      key |-> IF Len(digits) = 8
                THEN And8(digits[7]) * 16 + (digits[8] % 8) * 16
                     + And8(digits[6]) + (digits[7] % 8)
                ELSE Null]

\* The letters of the digits of a code
letters(digits) == [i \in 1..Len(digits) |-> toLetter(digits[i])]

\* An encoder that leaves bit 3 of the value out of the code
encode_dropValueBit(addr, value, key, wantskey) ==
  letters(IF key = Null
            THEN <<(value % 8) + And8(value \div 16),
                   ((value \div 16) % 8) + And8(addr \div 16),
                   ((addr \div 16) % 8) + (IF wantskey THEN 8 ELSE 0),
                   addr \div 4096 + And8(addr),
                   (addr % 8) + And8(addr \div 256),
                   ((addr \div 256) % 8)>>
            ELSE <<(value % 8) + And8(value \div 16),
                   ((value \div 16) % 8) + And8(addr \div 16),
                   ((addr \div 16) % 8) + 8,
                   addr \div 4096 + And8(addr),
                   (addr % 8) + And8(addr \div 256),
                   ((addr \div 256) % 8) + And8(key),
                   (key % 8) + And8(key \div 16),
                   ((key \div 16) % 8)>>)

\* GameGenie.encode for addr in 0-$7FFF; key is Null when undefined
encode(addr, value, key, wantskey) ==
  LET d0 == (value % 8) + And8(value \div 16)
      d1 == ((value \div 16) % 8) + And8(addr \div 16)
      d2 == ((addr \div 16) % 8)
      d3 == addr \div 4096 + And8(addr)
      d4 == (addr % 8) + And8(addr \div 256)
      d5 == ((addr \div 256) % 8)
  IN letters(IF key = Null
               THEN <<d0, d1, IF wantskey THEN d2 + 8 ELSE d2, d3, d4,
                      d5 + And8(value)>>
               ELSE <<d0, d1, d2 + 8, d3, d4, d5 + And8(key),
                      (key % 8) + And8(key \div 16),
                      ((key \div 16) % 8) + And8(value)>>)

CodeAddrs == {0, 8, 128, 2048, 2819, 4569, 10922, 21845, 28672, 32767}
CodeValues == {0, 1, 8, 119, 128, 173, 255}
CodeKeys == {Null, 0, 1, 8, 119, 128, 255}

\* Codes of n letters: every letter at every place of two base codes, the
\* third letter of the base being one of an n-letter code
CodesOf(n) ==
  {letters([i \in 1..n |->
              IF i = p THEN d
              ELSE IF i = 3 THEN (b % 8) + (IF n = 8 THEN 8 ELSE 0)
              ELSE b]) :
     p \in 1..n, d \in 0..15, b \in {5, 10}}

Codes ==
  CodesOf(6) \cup CodesOf(8)
    \cup {<<"S", "X", "I", "O", "P", "O">>, <<"A", "A", "E", "A", "U", "L", "P", "A">>}

\* decode(encode(addr, value, key))
CodeEncode(a, v, k) ==
  /\ nes.pc = "idle"
  /\ Becomes([Begin(St, "encode", a, v)
                EXCEPT !.out.code = [key |-> k, code |-> encode(a, v, k, FALSE),
                                     patch |-> decode(encode(a, v, k, FALSE))]])

\* encode(d.addr, d.value, d.key, d.wantskey) of d = decode(c)
CodeDecode(c) ==
  /\ nes.pc = "idle"
  /\ Becomes([Begin(St, "decode", Null, Null)
                EXCEPT !.out.code =
                         [from |-> c, patch |-> decode(c),
                          code |-> encode(decode(c).addr, decode(c).value,
                                          decode(c).key, decode(c).wantskey)]])

NextCode ==
  \/ \E a \in CodeAddrs, v \in CodeValues, k \in CodeKeys : CodeEncode(a, v, k)
  \/ \E c \in Codes : CodeDecode(c)

SpecCode == Init /\ [][NextCode]_vars

\* A code of six letters whose third letter is one of APZLGITY, or of eight
\* letters whose third letter is one of EOXUKSVN: the third letter tells
\* the length of a Game Genie code
ValidCode(c) ==
  /\ Len(c) \in {6, 8}
  /\ (Len(c) = 8) = (toDigit(c[3]) >= 8)

MaxIdxSteps == 15

IdxRom == MakeRom(0, 1, "index")

\* $0010, $0011: the values LDX and LDY load; $0020, $0021: the pointer;
\* $0101: the high byte RTS pulls
IdxWrites == {<<16, 1>>, <<17, 1>>, <<32, 128>>, <<33, 3>>, <<257, 128>>}

IdxLoadROM ==
  /\ nes.pc = "idle"
  /\ Becomes(NES_loadROM([Begin(St, "loadROM", Null, Null) EXCEPT !.out.steps = 0],
                         IdxRom))

IdxWrite(w) ==
  /\ nes.hasMmap
  /\ out.steps = 0
  /\ Becomes(write(AtBusCycle(Begin(St, "write", w[1], w[2])), w[1], w[2]))

\* emulate() returned e.cycles
EmulateReturned(e) == Becomes([e.s EXCEPT !.out.val = e.cycles])

\* One CPU.emulate() call
IdxEmulate ==
  /\ nes.hasMmap
  /\ out.steps < MaxIdxSteps
  /\ fetchOpcode(St).opcode \in ModelledOpcodes
  /\ EmulateReturned(emulate([Begin(St, "emulate", cpu.REG_PC, Null)
                                EXCEPT !.out.steps = @ + 1,
                                       !.out.opcode = fetchOpcode(St).opcode]))

NextIdx ==
  \/ IdxLoadROM
  \/ \E w \in IdxWrites : IdxWrite(w)
  \/ IdxEmulate

SpecIdx == Init /\ [][NextIdx]_vars

\* C25: an emulate() call that returns gives back a positive number of cycles
C25_EmulateReturnsCycles ==
  out.op = "emulate" => out.val \in Nat /\ out.val > 0

\* C26: after reset() and after every instruction the registers A, X, Y and
\* the stack pointer are within 0-255 and the program counter within 0-$FFFF
C26_RegisterRanges ==
  out.op \in {"loadROM", "emulate"}
    => /\ cpu.REG_ACC \in 0..255
       /\ cpu.REG_X \in 0..255
       /\ cpu.REG_Y \in 0..255
       /\ cpu.REG_SP \in 0..255
       /\ cpu.REG_PC \in 0..65535

\* The opcodes of the program's indexed reads and indexed stores
IndexedReads == {177, 185, 189}
IndexedStores == {145, 148, 150, 153, 157}

\* The byte after the opcode about to run
OperandByte == CpuReads(cpu.REG_PC + 2)

\* The base address the instruction about to run adds its index to
BaseAddress(op) ==
  IF op \in {145, 177}
    THEN CpuReads(OperandByte) + CpuReads((OperandByte + 1) % 256) * 256
    ELSE OperandWord(cpu.REG_PC)

\* The index register the instruction about to run adds
IndexOf(op) == IF op \in {148, 157, 189} THEN cpu.REG_X ELSE cpu.REG_Y

\* Adding the index crosses a page
Crosses(op) == (BaseAddress(op) % 256) + IndexOf(op) > 255

\* The bus cycles of the instruction without dummy read: the opcode, the
\* operand bytes, the pointer bytes of ($20),Y and the access itself
PlainCycles(op) ==
  CASE op \in {148, 150} -> 3
    [] op \in {153, 157, 185, 189} -> 4
    [] op \in {145, 177} -> 5

\* C30: an indexed read makes one bus cycle more than its plain cycles when
\* adding the index crosses a page and none otherwise; an indexed STA, STX or
\* STY always makes exactly one more
C30_IndexedDummyReads ==
  [][\A op \in IndexedReads \cup IndexedStores :
       Executes(op)
         => cpu'.instrBusCycles
              = PlainCycles(op)
                + (IF op \in IndexedStores \/ Crosses(op) THEN 1 ELSE 0)]_vars

\* LDA $4017,X with X = $FF has just run: five bus cycles, and the value of
\* its dummy read of $4016 has reached the accumulator over the open bus at
\* $4116
C30_Witness ==
  /\ out.op = "emulate"
  /\ out.opcode = 189
  /\ cpu.REG_X = 255
  /\ cpu.instrBusCycles = 5
  /\ out.val = 5
  /\ cpu.REG_ACC = 65

\* The instruction about to run has its operand word in $2000-$3FFF
AtPpuRegister == OperandWord(cpu.REG_PC) \in 8192..16383

\* C27: an instruction that reads or writes a PPU register, or fetches its
\* jump pointer from one, after its three opcode and operand cycles has
\* advanced the PPU by at least 9 dots in its catch-up
C27_CatchUpBeforePpuAccess ==
  [][\A op \in {108, 141, 173} :
       Executes(op) /\ AtPpuRegister => cpu'.ppuCatchupDots >= 9]_vars

\* C28: LDA $4015 has advanced the APU frame counter by the three bus cycles
\* complete before its read, and has recorded them as already fed
C28_ApuCatchUpBefore4015 ==
  [][Executes(173) /\ OperandWord(cpu.REG_PC) = 16405
       => /\ cpu'.apuCatchupCycles = 3
          /\ papu'.frameCycleCounter # papu.frameCycleCounter]_vars
(***************************************************************************)
(* SpecRmw: the CPU runs a program of read-modify-write and accumulator     *)
(* instructions on cartridge RAM, internal RAM and the controller port.     *)
(***************************************************************************)
MaxRmwSteps == 21

RmwRom == MakeRom(0, 1, "rmw")

\* $0010: the value LDX loads; $6000: the byte the instructions work on
RmwWrites == {<<16, 0>>, <<16, 1>>, <<24576, 129>>, <<24576, 127>>}

RmwLoadROM ==
  /\ nes.pc = "idle"
  /\ Becomes(NES_loadROM([Begin(St, "loadROM", Null, Null) EXCEPT !.out.steps = 0],
                         RmwRom))

RmwWrite(w) ==
  /\ nes.hasMmap
  /\ out.steps = 0
  /\ Becomes(write(AtBusCycle(Begin(St, "write", w[1], w[2])), w[1], w[2]))

\* One CPU.emulate() call
RmwEmulate ==
  /\ nes.hasMmap
  /\ out.steps < MaxRmwSteps
  /\ fetchOpcode(St).opcode \in ModelledOpcodes
  /\ EmulateReturned(emulate([Begin(St, "emulate", cpu.REG_PC, Null)
                                EXCEPT !.out.steps = @ + 1,
                                       !.out.opcode = fetchOpcode(St).opcode]))

NextRmw ==
  \/ RmwLoadROM
  \/ \E w \in RmwWrites : RmwWrite(w)
  \/ RmwEmulate

SpecRmw == Init /\ [][NextRmw]_vars

\* The opcodes of the program's read-modify-write instructions, all in
\* Absolute mode but INC abs,X ($FE)
RmwOpcodes == {14, 15, 46, 47, 78, 79, 110, 111, 206, 207, 238, 239, 254}

\* The effective address of the instruction at the program counter
EffectiveAddress(op) ==
  IF op = 254 THEN (OperandWord(cpu.REG_PC) + cpu.REG_X) % 65536
  ELSE OperandWord(cpu.REG_PC)

\* The last three bus calls b[n-2..n] are the read of a value at ea, the
\* write of that value and the write of the value modified
ReadWriteWrite(b, n, ea, ins) ==
  /\ n >= 3
  /\ b[n - 2][1] = "load" /\ b[n - 2][2] = ea
  /\ b[n - 1] = <<"write", ea, b[n - 2][3]>>
  /\ b[n] = <<"write", ea, modified(ins, b[n - 2][3], cpu.F_CARRY).val>>
  /\ \A i \in 1..(n - 3) : b[i][1] = "load"

\* C31: every read-modify-write instruction on a memory operand makes, in
\* this order, one read of the value at its effective address, one write of
\* that value and one write of the modified value (after a dummy read at
\* most); each is a bus cycle of the instruction, the value read is the byte
\* stored there, and both writes to cartridge RAM reach the mapper's battery
\* RAM callback
C31_ReadModifyWrite ==
  [][\A op \in RmwOpcodes :
       Executes(op) =>
         /\ ReadWriteWrite(out'.bus, Len(out'.bus), EffectiveAddress(op), OpInfo(op).ins)
         /\ cpu'.instrBusCycles = 3 + Len(out'.bus)
         /\ Len(out'.bus) = IF op = 254 THEN 4 ELSE 3
         /\ EffectiveAddress(op) \notin 8192..16407
              => out'.bus[Len(out'.bus) - 2][3]
                   = MemAt(mem, prg, IF EffectiveAddress(op) < 8192
                                       THEN EffectiveAddress(op) % 2048
                                       ELSE EffectiveAddress(op))
         /\ EffectiveAddress(op) \in 24576..32767
              => out'.battery = <<Tail(out'.bus[Len(out'.bus) - 1]),
                                  Tail(out'.bus[Len(out'.bus)])>>]_vars

\* INC $4016 has read $41 from the controller port and written $41, then
\* $42: the two writes are the strobe that restarts the controllers
C31_Witness ==
  /\ out.op = "emulate" /\ out.opcode = 238
  /\ out.bus = << <<"load", 16406, 65>>, <<"write", 16406, 65>>, <<"write", 16406, 66>> >>
  /\ mmap.joy1StrobeState = 0
  /\ mmap.joypadLastWrite = 66

\* The opcodes of the program's instructions that use a memory operand once:
\* AND, ADC, CMP and SBC in Absolute mode
AluOpcodes == {45, 109, 205, 237}

\* The number of CPU.load calls at ea among the bus calls b
Loads(b, ea) ==
  Cardinality({i \in 1..Len(b) : b[i][1] = "load" /\ b[i][2] = ea})

\* C38: AND, CMP, ADC and SBC read their effective address exactly once, so
\* that a read of the controller port $4016 advances its shift position once
C38_SingleOperandRead ==
  [][\A op \in AluOpcodes :
       Executes(op) =>
         /\ Loads(out'.bus, OperandWord(cpu.REG_PC)) = 1
         /\ Len(out'.bus) = 1
         /\ (OperandWord(cpu.REG_PC) = 16406 /\ mmap.joy1StrobeState \in 0..22)
              => mmap'.joy1StrobeState = mmap.joy1StrobeState + 1]_vars

\* The registers and flags an instruction can change
CpuRegisters ==
  {"REG_ACC", "REG_X", "REG_Y", "REG_SP", "REG_PC", "REG_STATUS",
   "F_CARRY", "F_DECIMAL", "F_INTERRUPT", "F_OVERFLOW", "F_SIGN", "F_ZERO",
   "F_BRK", "dataBus", "instrBusCycles"}

\* The bytes of cpu.mem below the PPU registers: internal RAM
InternalRam(m) == [a \in {x \in DOMAIN m : x < 8192} |-> m[a]]

\* The halt cycles one iteration of frame()'s loop consumes
HaltedCycles == IF cpu.cyclesToHalt > 8 THEN 8 ELSE cpu.cyclesToHalt

\* C32: an iteration of frame()'s loop that begins with halt cycles owed
\* executes no instruction (registers, flags, internal RAM and bus cycle count
\* stay); it takes min(8, owed) cycles off the debt, clocks the APU frame
\* counter by that many cycles and advances the PPU by three dots per cycle
C32_HaltedIterations ==
  [][(nes.pc = "loop" /\ cpu.cyclesToHalt # 0)
       => /\ cpu'.cyclesToHalt = cpu.cyclesToHalt - HaltedCycles
          /\ \A f \in CpuRegisters : cpu'[f] = cpu[f]
          /\ InternalRam(mem') = InternalRam(mem)
          /\ out'.ran = out.ran
          /\ papu' = clockFrameCounter(St, HaltedCycles, Null).papu
          /\ out'.cycles = out.cycles + HaltedCycles
          /\ out'.dots = out.dots + 3 * HaltedCycles]_vars

\* 64 iterations have taken 8 cycles each off the 513 of a sprite DMA; the
\* next takes the last one
C32_Witness ==
  /\ nes.pc = "loop"
  /\ cpu.cyclesToHalt = 1
  /\ "halt" \in out.path

\* The same iteration when it does not end the frame: all of its dots are run
HaltedIterationWithinFrame ==
  [][(nes.pc = "loop" /\ cpu.cyclesToHalt # 0)
       => /\ cpu'.cyclesToHalt = cpu.cyclesToHalt - HaltedCycles
          /\ \A f \in CpuRegisters : cpu'[f] = cpu[f]
          /\ InternalRam(mem') = InternalRam(mem)
          /\ out'.ran = out.ran
          /\ papu' = clockFrameCounter(St, HaltedCycles, Null).papu
          /\ out'.cycles = out.cycles + HaltedCycles
          /\ out'.dots <= out.dots + 3 * HaltedCycles
          /\ nes'.pc = "loop" => out'.dots = out.dots + 3 * HaltedCycles]_vars

(***************************************************************************)
(* SpecSeq: the frame counter sequences cycle by cycle.  The CPU writes     *)
(* $4017; the frame loop clocks the APU by one cycle or by the 7456 cycles  *)
(* between two steps.                                                       *)
(***************************************************************************)
MaxSeqClocks == 16

SeqCycles == {1, 7456}

\* out.cycles: the CPU cycles since the start of the first sequence after
\* power-on or after the last $4017 write (the write starts it 6 cycles on)
SeqLoadROM ==
  /\ nes.pc = "idle"
  /\ Becomes([NES_loadROM(Begin(St, "loadROM", Null, Null), JoyRom)
                EXCEPT !.out.steps = 0, !.out.cycles = 0, !.out.wraps = 0])

SeqWrite4017(v) ==
  /\ nes.hasMmap
  /\ out.steps = 0
  /\ Becomes([write(AtBusCycle(Begin(St, "write4017", 16407, v)), 16407, v)
                EXCEPT !.out.cycles = -6, !.out.wraps = 0])

\* papu.clockFrameCounter(n) as NES.frame calls it
SeqClock(n) ==
  /\ nes.hasMmap
  /\ out.steps < MaxSeqClocks
  /\ \E pa \in {[papu EXCEPT !.frameCycleCounter = @ + n]} :
       Becomes([clockFrameCounter(Begin(St, "clock", Null, n), n, Null)
                  EXCEPT !.out.steps = @ + 1,
                         !.out.cycles = @ + n,
                         !.out.fired = frameStepsFired(pa),
                         !.out.wraps = IF frameCounterLoop(pa).frameCycleCounter
                                            < pa.frameCycleCounter
                                         THEN @ + 1 ELSE @])

NextSeq ==
  \/ SeqLoadROM
  \/ \E v \in ApuModes : SeqWrite4017(v)
  \/ \E n \in SeqCycles : SeqClock(n)

SpecSeq == Init /\ [][NextSeq]_vars

\* The cycles of a sequence at which the stated events occur, and its length
QuarterFrameCycles(mode) ==
  IF mode = 0 THEN {7457, 14913, 22371, 29829} ELSE {7457, 14913, 22371, 37281}
HalfFrameCycles(mode) == IF mode = 0 THEN {14913, 29829} ELSE {14913, 37281}
SequenceLength(mode) == IF mode = 0 THEN 29830 ELSE 37282

\* The cycles among T that a clocking reaches: above `from`, up to `to`
Reached(T, from, to) == {t \in T : from < t /\ t <= to}

\* The thresholds of the fired steps that clock the quarter-frame units, and
\* the half-frame units
QuarterFired(f) == {f[i].at : i \in {j \in 1..Len(f) : f[j].clocks.quarter}}
HalfFired(f) == {f[i].at : i \in {j \in 1..Len(f) : f[j].clocks.half}}

\* C33: a clocking fires the quarter-frame and half-frame events whose cycle
\* of the sequence it reaches, these cycles being 7457, 14913, 22371, 29829
\* and 14913, 29829 in 4-step mode and 7457, 14913, 22371, 37281 and 14913,
\* 37281 in 5-step mode; the cycle counter is the number of cycles since the
\* sequence started, modulo 29830 or 37282; the frame interrupt flag is set
\* when cycle 29829 of a 4-step sequence is reached with the inhibit bit
\* clear, and by nothing else
C33_FrameSequence ==
  [][out'.op = "clock"
       => /\ QuarterFired(out'.fired)
               = Reached(QuarterFrameCycles(papu.countSequence),
                         papu.frameCycleCounter, papu.frameCycleCounter + out'.val)
          /\ HalfFired(out'.fired)
               = Reached(HalfFrameCycles(papu.countSequence),
                         papu.frameCycleCounter, papu.frameCycleCounter + out'.val)
          /\ out'.cycles = papu'.frameCycleCounter
                             + out'.wraps * SequenceLength(papu.countSequence)
          /\ papu'.frameCycleCounter < SequenceLength(papu.countSequence) - 1
          /\ papu'.frameIrqActive
               = (\/ papu.frameIrqActive
                  \/ /\ papu.countSequence = 0
                     /\ papu.frameIrqEnabled
                     /\ Reached({29829}, papu.frameCycleCounter,
                                papu.frameCycleCounter + out'.val) # {})]_vars

\* A 5-step sequence has passed cycle 29829 without an event and the next
\* clocking has reached cycle 37281, firing quarter and half frame
C33_Witness ==
  /\ out.op = "clock"
  /\ papu.countSequence = 1
  /\ out.wraps = 1
  /\ QuarterFired(out.fired) = {37281} /\ HalfFired(out.fired) = {37281}
  /\ ~papu.frameIrqActive

\* A 4-step sequence has reached cycle 29829 exactly, with the inhibit bit
\* clear: quarter and half frame fired and the interrupt flag is set
FourStepLastStep ==
  /\ out.op = "clock" /\ out.val = 1
  /\ papu.countSequence = 0 /\ papu.frameCycleCounter = -1
  /\ QuarterFired(out.fired) = {29829} /\ HalfFired(out.fired) = {29829}
  /\ papu.frameIrqActive

(***************************************************************************)
(* SpecMmc3: a Mapper 4 cartridge whose program displays the background.    *)
(* The host resets the console, writes the scanline counter's registers     *)
(* and runs a frame as far as the first scanlines.                          *)
(***************************************************************************)
MaxMmc3Steps == 1040

Mmc3Roms == {MakeRom(4, 1, "render"), MakeRom(4, 1, "poll")}

\* $C000 counter, $C001 latch, $E000 disable, $E001 enable
Mmc3Writes == {<<49152, 2>>, <<49153, 1>>, <<57344, 0>>, <<57345, 0>>}

Mmc3LoadROM(r) ==
  /\ nes.pc = "idle"
  /\ Becomes(NES_loadROM([Begin(St, "loadROM", Null, Null) EXCEPT !.out.steps = 0], r))

Mmc3Reset ==
  /\ nes.pc = "idle"
  /\ nes.hasMmap
  /\ out.steps = 0
  /\ Becomes(NES_reset(Begin(St, "reset", Null, Null)))

Mmc3Write(w) ==
  /\ nes.pc = "idle"
  /\ nes.hasMmap
  /\ out.steps = 0
  /\ Becomes(write(AtBusCycle(Begin(St, "write", w[1], w[2])), w[1], w[2]))

\* frame() up to the loop
Mmc3Begin ==
  /\ nes.pc = "idle"
  /\ nes.hasMmap
  /\ out.steps = 0
  /\ nes.crashed = "false"
  /\ Becomes([startFrame(Begin(St, "frame", Null, Null))
                EXCEPT !.nes.pc = "loop", !.out.dots = 0, !.out.cycles = 0])

\* One iteration of frame()'s loop
Mmc3Step ==
  /\ nes.pc = "loop"
  /\ out.steps < MaxMmc3Steps
  /\ CanStep(St)
  /\ \E e \in {stepEmulate(St)} :
       /\ Completes(e)
       /\ Becomes([stepped(St, e) EXCEPT !.out.steps = @ + 1])

NextMmc3 ==
  \/ \E r \in Mmc3Roms : Mmc3LoadROM(r)
  \/ Mmc3Reset
  \/ \E w \in Mmc3Writes : Mmc3Write(w)
  \/ Mmc3Begin
  \/ Mmc3Step

SpecMmc3 == Init /\ [][NextMmc3]_vars

\* The PPU has called clockIrqCounter() in this step
IrqCounterClocked == out'.irqClocks = out.irqClocks + 1

\* C34: every clockIrqCounter() call of a Mapper 4 cartridge whose IRQ
\* counter has been written or reset takes one off it, or, if that gives -1, reloads the counter from the latch
\* and requests a normal IRQ; the PPU makes the call once at the end of each
\* scanline 20-260 while the background or the sprites are displayed
C34_ScanlineCounter ==
  [][(nes.pc = "loop" /\ mmap.type = 4)
       => /\ (IrqCounterClocked /\ mmap.irqCounter # Null)
               => /\ mmap'.irqCounter = IF mmap.irqCounter - 1 < 0
                                           THEN mmap.irqLatchValue
                                           ELSE mmap.irqCounter - 1
                  /\ mmap.irqCounter - 1 < 0
                       => cpu'.irqRequested /\ cpu'.irqType = IRQ_NORMAL
          /\ IrqCounterClocked
               <=> /\ ppu'.scanline = ppu.scanline + 1
                   /\ ppu.scanline \in 20..260
                   /\ ~RenderingOff(St)
          /\ out'.irqClocks \in {out.irqClocks, out.irqClocks + 1}]_vars

\* The same with the first part restricted to calls made while the
\* cartridge's interrupt is enabled ($E001 written last) and the counter has
\* been written or reset
ScanlineCounterWhileEnabled ==
  [][(nes.pc = "loop" /\ mmap.type = 4)
       => /\ (IrqCounterClocked /\ mmap.irqEnable = 1 /\ mmap.irqCounter # Null)
               => /\ mmap'.irqCounter = IF mmap.irqCounter - 1 < 0
                                           THEN mmap.irqLatchValue
                                           ELSE mmap.irqCounter - 1
                  /\ mmap.irqCounter - 1 < 0
                       => cpu'.irqRequested /\ cpu'.irqType = IRQ_NORMAL
          /\ (IrqCounterClocked /\ ~(mmap.irqEnable = 1 /\ mmap.irqCounter # Null))
               => mmap' = mmap
          /\ IrqCounterClocked
               <=> /\ ppu'.scanline = ppu.scanline + 1
                   /\ ppu.scanline \in 20..260
                   /\ ~RenderingOff(St)
          /\ out'.irqClocks \in {out.irqClocks, out.irqClocks + 1}]_vars

\* The counter written 2 with latch 1 has been clocked five times: 1, 0,
\* reload and IRQ, 0, reload and IRQ
ScanlineCounterReloaded ==
  /\ mmap.type = 4 /\ mmap.irqEnable = 1
  /\ out.irqClocks = 5
  /\ mmap.irqCounter = 1 /\ mmap.irqLatchValue = 1

(***************************************************************************)
(* SpecMmc1: a Mapper 1 cartridge.  The host resets the console and the     *)
(* CPU writes to cartridge RAM and to the four register areas.              *)
(***************************************************************************)
MaxMmc1Writes == 9

Mmc1Rom == MakeRom(1, MaxRomCount, "banks")

\* $6000 (cartridge RAM), $8000, $BFFF, $C000, $FFFF (registers 0, 1, 2, 3)
Mmc1Addrs == {24576, 32768, 49151, 49152, 65535}

\* bit 0 clear and set, with the other low bits set; bit 7 set
Mmc1Values == {0, 1, 126, 129}

\* No reset of the shift register yet
UnknownBits == <<Null>>

\* The bits accumulated after one more write: none after a write with bit 7
\* set or after the fifth bit
Accumulated(bits, address, value) ==
  IF address < 32768 THEN bits
  ELSE IF Bit(value, 7) = 1 THEN <<>>
  ELSE IF bits = UnknownBits THEN bits
  ELSE IF Len(bits) = 4 THEN <<>>
  ELSE Append(bits, value % 2)

Mmc1LoadROM ==
  /\ nes.pc = "idle"
  /\ Becomes([NES_loadROM(Begin(St, "loadROM", Null, Null), Mmc1Rom)
                EXCEPT !.out.bits = UnknownBits, !.out.writes = 0])

Mmc1Reset ==
  /\ nes.hasMmap
  /\ Becomes([NES_reset(Begin(St, "reset", Null, Null)) EXCEPT !.out.bits = <<>>])

Mmc1Write(a, v) ==
  /\ nes.hasMmap
  /\ out.writes < MaxMmc1Writes
  /\ Becomes([write(AtBusCycle(Begin(St, "write", a, v)), a, v)
                EXCEPT !.out.bits = Accumulated(@, a, v),
                       !.out.writes = @ + 1])

NextMmc1 ==
  \/ Mmc1LoadROM
  \/ Mmc1Reset
  \/ \E a \in Mmc1Addrs, v \in Mmc1Values : Mmc1Write(a, v)

SpecMmc1 == Init /\ [][NextMmc1]_vars

\* The value whose bit i is the i-th element of bits (first element = bit 0)
RECURSIVE ValueOf(_)
ValueOf(bits) == IF bits = <<>> THEN 0 ELSE Head(bits) + 2 * ValueOf(Tail(bits))

\* The register an address of $8000-$FFFF selects
RegisterAt(address) == (address - 32768) \div 8192

\* The registers of a Mapper 1 cartridge and its PRG banks
Mmc1Registers(m, p) ==
  <<m.mirroring, m.vromSwitchingSize, m.romSelectionReg0, m.romSelectionReg1, p>>

C36_MaskedIrqStaysPending ==
  [][(out'.op = "emulate" /\ cpu.irqRequested /\ cpu.irqType = IRQ_NORMAL
        /\ cpu.F_INTERRUPT # 0)
       => (cpu'.irqRequested /\ cpu'.irqType = IRQ_NORMAL)]_vars

\* Cartridge addresses: battery RAM $6000, $7FFF, PRG ROM $8000, $8001, the
\* reset vector $FFFC, $FFFD and $FFFF
CartridgeAddrs == {24576, 32767, 32768, 32769, 65532, 65533, 65535}

\* C39: reset() of a console with a cartridge loaded leaves the bytes the
\* CPU sees at $6000-$FFFF as they were, and leaves the CPU about to start
\* at the address in the reset vector: the reset interrupt pending, or the
\* program counter before that address
C39_ResetKeepsCartridge ==
  [][(out'.op = "reset" /\ nes.hasMmap /\ nes.rom.valid)
       => /\ \A a \in CartridgeAddrs : MemAt(mem', prg', a) = MemAt(mem, prg, a)
          /\ \/ cpu'.irqRequested /\ cpu'.irqType = IRQ_RESET
             \/ cpu'.REG_PC + 1 = MemAt(mem, prg, 65532) + 256 * MemAt(mem, prg, 65533)]_vars

(***************************************************************************)
(* SpecPatch: Game Genie patches for ROM addresses whose low 15 bits are    *)
(* the address of internal RAM, of a register or of battery RAM.            *)
(***************************************************************************)
MaxPatchReads == 3

\* Patches for ROM $8010, $A002, $C016 and $E000
LowPatches ==
  {[addr |-> 16, value |-> 17, key |-> Null],
   [addr |-> 8194, value |-> 34, key |-> Null],
   [addr |-> 16406, value |-> 51, key |-> Null],
   [addr |-> 24576, value |-> 68, key |-> Null]}

\* $0010 (RAM), $2002 (PPU status), $4016 (controller 1), $5000 (expansion
\* area), $6000 (battery RAM), $E000 (ROM)
PatchAddrs == {16, 8194, 16406, 20480, 24576, 57344}

PatchAdd(p) ==
  /\ Len(nes.gameGenie.patches) < MaxPatches
  /\ Becomes([Begin(St, "addPatch", p.addr, p.value)
                EXCEPT !.nes.gameGenie.patches = Append(@, p)])

PatchLoad(a) ==
  /\ nes.hasMmap
  /\ out.writes < MaxPatchReads
  /\ Returned(load(AtBusCycle([Begin(St, "load", a, Null)
                                EXCEPT !.out.writes = @ + 1]), a))

NextPatch ==
  \/ GenieLoadROM
  \/ \E p \in LowPatches : PatchAdd(p)
  \/ \E b \in BOOLEAN : GenieSetEnabled(b)
  \/ GenieRemoveAllCodes
  \/ \E a \in PatchAddrs : PatchLoad(a)

SpecPatch == Init /\ [][NextPatch]_vars

\* The console with the Game Genie switched off
GenieOff(s) == [s EXCEPT !.nes.gameGenie.enabled = FALSE]

\* C40: a CPU read of an address below $8000 returns the value, and leaves
\* the CPU, PPU, mapper and memory in the state, that the same read gives
\* with Game Genie disabled
C40_PatchesOnlyRom ==
  [][\A a \in PatchAddrs :
       (out'.op = "load" /\ out'.addr = a /\ a < 32768)
         => \E r \in {load(AtBusCycle(GenieOff(St)), a)} :
              /\ out'.val = r.val
              /\ cpu' = r.s.cpu /\ ppu' = r.s.ppu /\ mmap' = r.s.mmap
              /\ mem' = r.s.mem]_vars

\* Reads of internal RAM are the same with and without Game Genie
RamReadsUnpatched ==
  [][\A a \in PatchAddrs :
       (out'.op = "load" /\ out'.addr = a /\ a < 8192)
         => \E r \in {load(AtBusCycle(GenieOff(St)), a)} :
              /\ out'.val = r.val
              /\ cpu' = r.s.cpu /\ ppu' = r.s.ppu /\ mmap' = r.s.mmap
              /\ mem' = r.s.mem]_vars

(***************************************************************************)
(* SpecLoop: the host loads a cartridge and runs frames.  frame() takes no *)
(* input while it runs, so an iteration of FRAMELOOP that finds the        *)
(* console as an earlier iteration of the same call found it is followed   *)
(* by the same iterations again, for ever.  out.iter counts the iterations *)
(* of the call and out.mark is the console as the latest of iterations 1, *)
(* 2, 4, 8, ... left it, kept once a later iteration has left it again.    *)
(***************************************************************************)
MarkBits == 15

LoopImages == {"spin", "poll", "nmi"}
LoopRoms == {MakeRom(0, 1, i) : i \in LoopImages}

\* Everything an iteration reads
ConsoleOf(s) ==
  <<s.nes, s.cpu, s.mem, s.prg, s.ppu, s.papu, s.mmap, s.controllers>>

\* The iteration about to run finds the console as a marked iteration left it
Recurs ==
  /\ nes.pc = "loop"
  /\ out.mark.at < out.iter
  /\ out.mark.console = ConsoleOf(St)

\* The console t after an iteration, the iteration counted and marked
marked(s, t) ==
  IF t.nes.pc = "idle"
    THEN [t EXCEPT !.out.iter = 0, !.out.mark = [at |-> 0, console |-> <<>>]]
  ELSE IF s.out.iter + 1 \in {2 ^ k : k \in 0..MarkBits}
          /\ s.out.mark.console # ConsoleOf(t)
    THEN [t EXCEPT !.out.iter = @ + 1,
                   !.out.mark = [at |-> s.out.iter + 1, console |-> ConsoleOf(t)]]
    ELSE [t EXCEPT !.out.iter = @ + 1]

\* One iteration of FRAMELOOP, whether or not emulate() returns a value
LoopStep ==
  /\ nes.pc = "loop"
  /\ CanStep(St)
  /\ ~Recurs
  /\ \E e \in {stepEmulate(St)} : Becomes(marked(St, stepped(St, e)))

NextLoop ==
  \/ \E r \in LoopRoms : FrameLoadROM(r)
  \/ FrameBegin
  \/ LoopStep

SpecLoop == Init /\ [][NextLoop]_vars

\* C37: every frame() on a console with a loaded ROM leaves FRAMELOOP after
\* finitely many iterations, by returning or by throwing, whatever the
\* program: no iteration finds the console as an earlier iteration of the
\* same call found it.
C37_FrameTerminates == ~Recurs

\* emulate() has returned no value: RTS pulled $FFFF and left REG_PC there, and
\* the APU's cycle counter is NaN
Spinning ==
  /\ nes.pc = "loop"
  /\ cpu.REG_PC = 65535
  /\ papu.frameCycleCounter = NotANumber

\* An iteration whose emulate() returns no value runs no PPU dot and stays in
\* the loop
NoValueNoDot ==
  [][(nes.pc = "loop" /\ cpu.cyclesToHalt = 0 /\ ~Completes(emulate(St)))
       => (nes.pc' = "loop" /\ ppu' = ppu)]_vars

\* An iteration that is halted, or whose emulate() returns a cycle count,
\* moves the PPU or ends the call
CountedIterationAdvances ==
  [][(nes.pc = "loop" /\ nes.pc' = "loop" /\ Completes(stepEmulate(St)))
       => DotPosition(ppu') # DotPosition(ppu)]_vars

====
